---- MODULE Spec2Model ----
(***************************************************************************)
(* PelotonIQ monitoring: the data-quality monitor                          *)
(* (src/monitoring/data-quality/data-quality-monitor.py) and the model     *)
(* performance tracker                                                     *)
(* (src/monitoring/ai-model-monitoring/model-performance-tracker.py).      *)
(*                                                                         *)
(* Scores, rates and drift values are Python floats (IEEE-754 binary64).   *)
(* They are modelled bit-exactly: a float is a sign, a 53-bit mantissa     *)
(* held as a little-endian sequence of 15-bit limbs, and a binary          *)
(* exponent; every arithmetic operation computes the exact result and      *)
(* rounds it to nearest, ties to even, as the hardware does.               *)
(***************************************************************************)
EXTENDS Integers, Sequences, FiniteSets, TLC

\* In(value): value gets the local name that In gives its parameter, and is
\* computed once however often In uses it
Let(value, In(_)) == In(value)

(***************************************************************************)
(* Unbounded naturals as limb sequences (least significant limb first,     *)
(* no leading zero limb; zero is the empty sequence).                      *)
(***************************************************************************)
LimbBits == 15
Base == 2 ^ LimbBits

RECURSIVE BNorm(_)
BNorm(a) ==
  IF a = <<>> THEN <<>>
  ELSE IF a[Len(a)] = 0 THEN BNorm(SubSeq(a, 1, Len(a) - 1)) ELSE a

RECURSIVE BFromInt(_)
BFromInt(n) == IF n = 0 THEN <<>> ELSE <<n % Base>> \o BFromInt(n \div Base)

RECURSIVE BAddC(_, _, _)
BAddC(a, b, c) ==
  IF a = <<>> /\ b = <<>> THEN (IF c = 0 THEN <<>> ELSE <<c>>)
  ELSE LET x == IF a = <<>> THEN 0 ELSE Head(a)
           y == IF b = <<>> THEN 0 ELSE Head(b)
           s == x + y + c
       IN  <<s % Base>> \o BAddC(IF a = <<>> THEN <<>> ELSE Tail(a),
                                 IF b = <<>> THEN <<>> ELSE Tail(b),
                                 s \div Base)

BAdd(a, b) == BAddC(a, b, 0)

RECURSIVE BSubC(_, _, _)
BSubC(a, b, c) ==
  IF a = <<>> THEN <<>>
  ELSE LET y == IF b = <<>> THEN 0 ELSE Head(b)
           s == Head(a) - y - c
       IN  <<s % Base>> \o BSubC(Tail(a),
                                 IF b = <<>> THEN <<>> ELSE Tail(b),
                                 IF s < 0 THEN 1 ELSE 0)

\* a - b for a >= b
BSub(a, b) == BNorm(BSubC(a, b, 0))

RECURSIVE BCmpAt(_, _, _)
BCmpAt(a, b, i) ==
  IF i = 0 THEN 0
  ELSE IF a[i] > b[i] THEN 1
  ELSE IF a[i] < b[i] THEN -1
  ELSE BCmpAt(a, b, i - 1)

\* -1, 0, 1 as a < b, a = b, a > b
BCmp(a, b) ==
  IF Len(a) > Len(b) THEN 1
  ELSE IF Len(a) < Len(b) THEN -1
  ELSE BCmpAt(a, b, Len(a))

RECURSIVE BMulSmallC(_, _, _)
BMulSmallC(a, k, c) ==
  IF a = <<>> THEN BFromInt(c)
  ELSE LET s == Head(a) * k + c
       IN  <<s % Base>> \o BMulSmallC(Tail(a), k, s \div Base)

\* a * k + c for 0 <= k, c < Base
BMulSmall(a, k, c) == BNorm(BMulSmallC(a, k, c))

RECURSIVE BMul(_, _)
BMul(a, b) ==
  IF a = <<>> \/ b = <<>> THEN <<>>
  ELSE Let(BMul(Tail(a), b), LAMBDA rest :
         BAdd(BMulSmall(b, Head(a), 0), IF rest = <<>> THEN <<>> ELSE <<0>> \o rest))

RECURSIVE ILen(_)
ILen(x) == IF x = 0 THEN 0 ELSE 1 + ILen(x \div 2)

BBitLen(a) == IF a = <<>> THEN 0 ELSE LimbBits * (Len(a) - 1) + ILen(a[Len(a)])

\* a * 2^n
BShl(a, n) ==
  IF a = <<>> THEN <<>>
  ELSE [i \in 1..(n \div LimbBits) |-> 0] \o BMulSmall(a, 2 ^ (n % LimbBits), 0)

\* floor(a / 2^n)
BShr(a, n) ==
  LET w == n \div LimbBits
      r == n % LimbBits
      t == IF w >= Len(a) THEN <<>> ELSE SubSeq(a, w + 1, Len(a))
  IN  BNorm([i \in 1..Len(t) |->
               (t[i] \div (2 ^ r))
               + (IF i < Len(t) THEN (t[i + 1] % (2 ^ r)) * (2 ^ (LimbBits - r)) ELSE 0)])

\* a mod 2^n
BLow(a, n) ==
  LET w == n \div LimbBits
      r == n % LimbBits
  IN  IF w >= Len(a) THEN a
      ELSE BNorm(SubSeq(a, 1, w) \o <<a[w + 1] % (2 ^ r)>>)

RECURSIVE BDivDigit(_, _, _)
\* The largest q <= qhat with d * q <= rem (qhat is at most two too large).
BDivDigit(d, rem, qhat) ==
  IF BCmp(BMulSmall(d, qhat, 0), rem) > 0 THEN BDivDigit(d, rem, qhat - 1) ELSE qhat

\* One step of schoolbook long division in base 2^15: limb x of the dividend
\* is brought down to the remainder qr[2], and the next quotient limb is
\* estimated from the leading limbs and corrected.  d has its top limb
\* >= Base / 2.
BDivLimb(d, x, qr) ==
  Let(BNorm(<<x>> \o qr[2]), LAMBDA rem :
    LET dl == Len(d)
        top == (IF Len(rem) > dl THEN rem[dl + 1] * Base ELSE 0)
               + (IF Len(rem) >= dl THEN rem[dl] ELSE 0)
        est == top \div d[dl]
    IN  Let(IF Len(rem) < dl THEN 0
            ELSE BDivDigit(d, rem, IF est > Base - 1 THEN Base - 1 ELSE est),
            LAMBDA qd : <<BNorm(<<qd>> \o qr[1]), BSub(rem, BMulSmall(d, qd, 0))>>))

RECURSIVE BDivLimbs(_, _, _, _)
\* The steps for limbs i down to 1 of n; the test on nxt only makes the
\* evaluator compute nxt before it descends.
BDivLimbs(n, d, i, qr) ==
  IF i = 0 THEN qr
  ELSE Let(BDivLimb(d, n[i], qr), LAMBDA nxt :
         IF Len(nxt[1]) + Len(nxt[2]) < 0 THEN nxt ELSE BDivLimbs(n, d, i - 1, nxt))

\* <<floor(n / d), n mod d>> for d > 0: both are shifted by sh bits so that
\* the top limb of the divisor is >= Base / 2
BDivMod(n, d) ==
  Let(LimbBits - ILen(d[Len(d)]), LAMBDA sh :
    Let(BShl(n, sh), LAMBDA nn :
      Let(BDivLimbs(nn, BShl(d, sh), Len(nn), <<(<<>>), (<<>>)>>), LAMBDA qr :
        <<qr[1], BShr(qr[2], sh)>>)))

RECURSIVE BSqrtStep(_, _)
\* Newton's iteration from above: x >= floor(sqrt(n)) throughout.
BSqrtStep(n, x) ==
  Let(BShr(BAdd(x, BDivMod(n, x)[1]), 1), LAMBDA y :
    IF BCmp(y, x) >= 0 THEN x ELSE BSqrtStep(n, y))

\* floor(sqrt(n))
BSqrt(n) == IF n = <<>> THEN <<>> ELSE BSqrtStep(n, BShl(<<1>>, (BBitLen(n) + 1) \div 2))

(***************************************************************************)
(* IEEE-754 binary64 values.  k = "num": the value (-1)^neg * m * 2^e with *)
(* m = 0 (zero, e = 0) or 2^52 <= m < 2^53; k = "nan": not a number.       *)
(* The values that occur are far from the overflow and subnormal ranges.   *)
(***************************************************************************)
MantBits == 53

FZero == [k |-> "num", neg |-> FALSE, m |-> <<>>, e |-> 0]
NaN == [k |-> "nan", neg |-> FALSE, m |-> <<>>, e |-> 0]
\* Python's None where a float may stand
None == [k |-> "none", neg |-> FALSE, m |-> <<>>, e |-> 0]

IsNaN(x) == x.k = "nan"
IsZero(x) == x.k = "num" /\ x.m = <<>>

\* the float nearest to (-1)^neg * M * 2^e (ties to even); sticky says that a
\* nonzero remainder below the last bit of M was already dropped.  M holds d
\* bits more than a mantissa; c compares the dropped bits with half a unit
\* of what is kept (hi), and rounding up may carry into a 54th bit.
FRoundInt(neg, M, e, sticky) ==
  IF M = <<>> THEN FZero
  ELSE Let(BBitLen(M) - MantBits, LAMBDA d :
    IF d <= 0
    THEN [k |-> "num", neg |-> neg, m |-> BShl(M, 0 - d), e |-> e + d]
    ELSE Let(BShr(M, d), LAMBDA hi :
         Let(BCmp(BLow(M, d), BShl(<<1>>, d - 1)), LAMBDA c :
         Let(IF c > 0 \/ (c = 0 /\ (sticky \/ hi[1] % 2 = 1))
             THEN BAdd(hi, <<1>>) ELSE hi, LAMBDA hi2 :
           IF BBitLen(hi2) > MantBits
           THEN [k |-> "num", neg |-> neg, m |-> BShr(hi2, 1), e |-> e + d + 1]
           ELSE [k |-> "num", neg |-> neg, m |-> hi2, e |-> e + d]))))

\* the float nearest to (-1)^neg * (num / den) * 2^e, den > 0: the quotient
\* of num * 2^s by den holds at least two bits more than a mantissa
FRoundRat(neg, num, den, e) ==
  IF num = <<>> THEN FZero
  ELSE Let(BBitLen(num) - BBitLen(den), LAMBDA gap :
       Let(IF gap >= MantBits + 2 THEN 0 ELSE (MantBits + 2) - gap, LAMBDA s :
       Let(BDivMod(BShl(num, s), den), LAMBDA qr :
         FRoundInt(neg, qr[1], e - s, qr[2] # <<>>))))

Abs(n) == IF n < 0 THEN 0 - n ELSE n

\* float(n) for an int n
FromInt(n) == FRoundInt(n < 0, BFromInt(Abs(n)), 0, FALSE)

\* the float a decimal literal n/d denotes (0.7 is FromRat(7, 10))
FromRat(n, d) == FRoundRat(n < 0, BFromInt(Abs(n)), BFromInt(d), 0)

FNeg(x) == IF x.k = "nan" \/ x.m = <<>> THEN x ELSE [x EXCEPT !.neg = ~x.neg]
FAbs(x) == IF x.k = "nan" THEN x ELSE [x EXCEPT !.neg = FALSE]

\* -1, 0, 1 for two numbers (not NaN); mag compares their magnitudes
FCmp(x, y) ==
  Let(IF x.m = <<>> /\ y.m = <<>> THEN 0
      ELSE IF x.m = <<>> THEN -1
      ELSE IF y.m = <<>> THEN 1
      ELSE IF x.e > y.e THEN 1
      ELSE IF x.e < y.e THEN -1
      ELSE BCmp(x.m, y.m), LAMBDA mag :
    IF x.m = <<>> /\ y.m = <<>> THEN 0
    ELSE IF x.m = <<>> THEN (IF y.neg THEN 1 ELSE -1)
    ELSE IF y.m = <<>> THEN (IF x.neg THEN -1 ELSE 1)
    ELSE IF x.neg /\ ~y.neg THEN -1
    ELSE IF ~x.neg /\ y.neg THEN 1
    ELSE IF x.neg THEN 0 - mag ELSE mag)

\* comparisons: any comparison with NaN is false
FLt(x, y) == x.k = "num" /\ y.k = "num" /\ FCmp(x, y) < 0
FGt(x, y) == FLt(y, x)
FLe(x, y) == x.k = "num" /\ y.k = "num" /\ FCmp(x, y) <= 0
FGe(x, y) == FLe(y, x)

Min(a, b) == IF a < b THEN a ELSE b

\* x + y: the mantissas are aligned at the smaller exponent e0 (X, Y), and
\* c compares them
FAdd(x, y) ==
  IF x.k = "nan" \/ y.k = "nan" THEN NaN
  ELSE IF x.m = <<>> THEN y
  ELSE IF y.m = <<>> THEN x
  ELSE Let(Min(x.e, y.e), LAMBDA e0 :
       Let(BShl(x.m, x.e - e0), LAMBDA X :
       Let(BShl(y.m, y.e - e0), LAMBDA Y :
       Let(BCmp(X, Y), LAMBDA c :
         IF x.neg # y.neg /\ c = 0 THEN FZero
         ELSE FRoundInt(IF x.neg = y.neg \/ c > 0 THEN x.neg ELSE y.neg,
                        IF x.neg = y.neg THEN BAdd(X, Y)
                        ELSE IF c > 0 THEN BSub(X, Y) ELSE BSub(Y, X),
                        e0, FALSE)))))

FSub(x, y) == FAdd(x, FNeg(y))

FMul(x, y) ==
  IF x.k = "nan" \/ y.k = "nan" THEN NaN
  ELSE FRoundInt(x.neg # y.neg, BMul(x.m, y.m), x.e + y.e, FALSE)

\* x / y for y # 0 (a zero divisor is the caller's case: Python raises, numpy
\* yields nan or inf)
FDiv(x, y) ==
  IF x.k = "nan" \/ y.k = "nan" THEN NaN
  ELSE FRoundRat(x.neg # y.neg, x.m, y.m, x.e - y.e)

\* sqrt(x), correctly rounded: the integer root of the mantissa shifted to
\* an even exponent, with the inexactness as the sticky bit
FSqrt(x) ==
  IF x.k = "nan" THEN NaN
  ELSE IF x.m = <<>> THEN FZero
  ELSE IF x.neg THEN NaN
  ELSE Let(IF (x.e - (MantBits + 3)) % 2 = 0 THEN MantBits + 3 ELSE MantBits + 4,
           LAMBDA sh :
       Let(BShl(x.m, sh), LAMBDA M :
       Let(BSqrt(M), LAMBDA root :
         FRoundInt(FALSE, root, (x.e - sh) \div 2, BMul(root, root) # M))))

(***************************************************************************)
(* numpy reductions over a Python list of floats.  For fewer than eight    *)
(* elements numpy adds them left to right, starting from zero.             *)
(***************************************************************************)
RECURSIVE NpSumTo(_, _)
NpSumTo(xs, i) == IF i = 0 THEN FZero ELSE FAdd(NpSumTo(xs, i - 1), xs[i])

\* from eight elements on (up to 128) numpy keeps eight running sums r[1..8],
\* r[j] = xs[j] + xs[8 + j] + ..., over the whole blocks of eight
RECURSIVE NpLane(_, _, _)
NpLane(xs, j, blocks) ==
  IF blocks = 1 THEN xs[j]
  ELSE FAdd(NpLane(xs, j, blocks - 1), xs[8 * (blocks - 1) + j])

\* ... adds them pairwise: ((r1 + r2) + (r3 + r4)) + ((r5 + r6) + (r7 + r8))
RECURSIVE NpPairs(_, _, _)
NpPairs(r, lo, hi) ==
  IF lo = hi THEN r[lo]
  ELSE FAdd(NpPairs(r, lo, (lo + hi) \div 2), NpPairs(r, (lo + hi) \div 2 + 1, hi))

\* ... and then adds the elements after the last whole block
RECURSIVE NpTail(_, _, _)
NpTail(xs, res, i) ==
  IF i > Len(xs) THEN res ELSE NpTail(xs, FAdd(res, xs[i]), i + 1)

\* np.sum of a list of at most 128 floats
NpSum(xs) ==
  IF Len(xs) < 8 THEN NpSumTo(xs, Len(xs))
  ELSE NpTail(xs, NpPairs([j \in 1..8 |-> NpLane(xs, j, Len(xs) \div 8)], 1, 8),
              8 * (Len(xs) \div 8) + 1)

\* np.mean of a non-empty list
NpMean(xs) == FDiv(NpSum(xs), FromInt(Len(xs)))

VARIABLES
  baseline_metrics,   \* tracker: self.models[model_name]['baseline_metrics']
  current_metrics,    \* tracker: the metrics of the latest evaluation
  drift_score,        \* tracker: the drift score computed from them
  accuracy_threshold, \* tracker: self.accuracy_threshold
  drift_threshold,    \* tracker: self.drift_threshold
  config,             \* monitor: the DataSourceConfig of the data source
  df,                 \* monitor: the sample of the table being assessed
  detection,          \* monitor: what detect_anomalies returned for df
  assess,             \* monitor: the locals of assess_data_source and where it is
  quality_result,     \* monitor: the DataQualityResult it built
  store,              \* monitor: what became of persisting the result
  call,               \* the current call of an alert check: arguments, alerts
  sent,               \* the delivery attempts of that call, in order
  ref,                \* an earlier, completed call, kept when a later call starts
  sink,               \* monitor: what the Prometheus client does when a metric is emitted
  cycle               \* monitor: run_monitoring_cycle, its workers and their connection

driftVars == <<baseline_metrics, current_metrics, drift_score>>
alertVars == <<accuracy_threshold, drift_threshold, call, sent, ref>>
sampleVars == <<config, df, detection>>
assessVars == <<assess, quality_result, store>>
cycleVars == <<sink, cycle>>

vars == <<baseline_metrics, current_metrics, drift_score,
          accuracy_threshold, drift_threshold, config, df, detection,
          assess, quality_result, store, call, sent, ref, sink, cycle>>

EmptyDict == <<>>

(***************************************************************************)
(* ModelPerformanceTracker: the drift scorer.                              *)
(***************************************************************************)
\* the metrics evaluate_model_performance passes, in the order of its dict
MetricNames == <<"accuracy", "precision", "recall", "f1">>

\* what _get_baseline_metrics can return for one metric: the mean and the
\* sample standard deviation of the history (0 for a constant history, NaN
\* for a history of one row)
BaselineStats ==
  { [mean |-> FromRat(90, 100), std |-> FromRat(5, 100)],
    [mean |-> FromRat(90, 100), std |-> FZero],
    [mean |-> FromRat(80, 100), std |-> NaN] }

\* {} when the model has no history, else all four metrics
Baselines ==
  {EmptyDict} \cup [{MetricNames[i] : i \in 1..Len(MetricNames)} -> BaselineStats]

MetricValues == {FromRat(70, 100), FromRat(90, 100)}

CurrentMetrics == [{MetricNames[i] : i \in 1..Len(MetricNames)} -> MetricValues]

\* baseline.get(f"{metric_name}_mean") / baseline.get(f"{metric_name}_std"):
\* None when the key is absent
BaselineGet(baseline, metric_name, field) ==
  IF metric_name \in DOMAIN baseline THEN baseline[metric_name][field] ELSE None

\* the guard of line 341
HasUsableBaseline(baseline, metric_name) ==
  /\ BaselineGet(baseline, metric_name, "mean") # None
  /\ BaselineGet(baseline, metric_name, "std") # None
  /\ FGt(BaselineGet(baseline, metric_name, "std"), FZero)

ZScoreSigned(current_value, baseline_mean, baseline_std) ==
  FDiv(FSub(current_value, baseline_mean), baseline_std)

\* line 343
ZScore(current_value, baseline_mean, baseline_std) ==
  FDiv(FAbs(FSub(current_value, baseline_mean)), baseline_std)

\* the list drift_scores built by the loop of lines 337-344
DriftScores(baseline, current) ==
  LET used == SelectSeq(MetricNames, LAMBDA mn : HasUsableBaseline(baseline, mn))
  IN  [i \in 1..Len(used) |->
         ZScore(current[used[i]], baseline[used[i]].mean, baseline[used[i]].std)]

DriftMeanOverAll(drift_scores) ==
  IF drift_scores = <<>> THEN FZero
  ELSE FDiv(NpSum(drift_scores), FromInt(Len(MetricNames)))

\* line 346: np.mean(drift_scores) if drift_scores else 0.0
DriftMean(drift_scores) ==
  IF drift_scores = <<>> THEN FZero ELSE NpMean(drift_scores)

_calculate_drift_score(baseline, current) ==
  IF baseline = EmptyDict THEN FZero
  ELSE DriftMean(DriftScores(baseline, current))

\* evaluate_model_performance, lines 237-249: the metrics of the test batch
\* and their drift score
CalculateDriftScore ==
  \E current \in CurrentMetrics :
    /\ current_metrics' = current
    /\ drift_score' = _calculate_drift_score(baseline_metrics, current)
    /\ UNCHANGED <<cycleVars, baseline_metrics, alertVars, sampleVars, assessVars>>

(***************************************************************************)
(* The alert checks: DataQualityMonitor._check_quality_alerts and          *)
(* ModelPerformanceTracker._check_alerts.                                  *)
(***************************************************************************)
\* dict.get(key, default) on a dict whose absent keys are held as None
Get(d, key, default) == IF d[key] = None THEN default ELSE d[key]

F70 == FromInt(70)
F85 == FromInt(85)
F10 == FromInt(10)
F01 == FromRat(1, 10)
F07 == FromRat(7, 10)

OverallAlertAtThreshold(result, thresholds) ==
  IF FLe(result.overall_score, Get(thresholds, "overall", F85))
  THEN << [type |-> "overall_quality_degradation",
           severity |-> IF FLt(result.overall_score, F70) THEN "critical" ELSE "warning",
           data_source |-> result.data_source,
           score |-> result.overall_score,
           threshold |-> Get(thresholds, "overall", F85)] >>
  ELSE <<>>

\* the alert if a score of exactly 70 were critical too
OverallAlertCriticalAtSeventy(result, thresholds) ==
  IF FLt(result.overall_score, Get(thresholds, "overall", F85))
  THEN << [type |-> "overall_quality_degradation",
           severity |-> IF FLe(result.overall_score, F70) THEN "critical" ELSE "warning",
           data_source |-> result.data_source,
           score |-> result.overall_score,
           threshold |-> Get(thresholds, "overall", F85)] >>
  ELSE <<>>

\* lines 773-782
OverallAlert(result, thresholds) ==
  IF FLt(result.overall_score, Get(thresholds, "overall", F85))
  THEN << [type |-> "overall_quality_degradation",
           severity |-> IF FLt(result.overall_score, F70) THEN "critical" ELSE "warning",
           data_source |-> result.data_source,
           score |-> result.overall_score,
           threshold |-> Get(thresholds, "overall", F85)] >>
  ELSE <<>>

\* the alert if a count equal to the threshold raised it too
AnomalyAlertAtThreshold(result, thresholds) ==
  IF FGe(FromInt(result.anomalies_detected), Get(thresholds, "max_anomalies", F10))
  THEN << [type |-> "anomaly_spike",
           severity |-> "warning",
           data_source |-> result.data_source,
           anomalies |-> result.anomalies_detected,
           threshold |-> Get(thresholds, "max_anomalies", F10)] >>
  ELSE <<>>

\* lines 784-793
AnomalyAlert(result, thresholds) ==
  IF FGt(FromInt(result.anomalies_detected), Get(thresholds, "max_anomalies", F10))
  THEN << [type |-> "anomaly_spike",
           severity |-> "warning",
           data_source |-> result.data_source,
           anomalies |-> result.anomalies_detected,
           threshold |-> Get(thresholds, "max_anomalies", F10)] >>
  ELSE <<>>

\* line 796
FailureRate(result) ==
  IF result.checks_passed + result.checks_failed > 0
  THEN FDiv(FromInt(result.checks_failed),
            FromInt(result.checks_passed + result.checks_failed))
  ELSE FZero

\* the alert if a rate equal to the threshold raised it too
FailureRateAlertAtThreshold(result, thresholds) ==
  IF FGe(FailureRate(result), Get(thresholds, "max_failure_rate", F01))
  THEN << [type |-> "high_failure_rate",
           severity |-> "warning",
           data_source |-> result.data_source,
           failure_rate |-> FailureRate(result),
           threshold |-> Get(thresholds, "max_failure_rate", F01)] >>
  ELSE <<>>

\* lines 797-805
FailureRateAlert(result, thresholds) ==
  IF FGt(FailureRate(result), Get(thresholds, "max_failure_rate", F01))
  THEN << [type |-> "high_failure_rate",
           severity |-> "warning",
           data_source |-> result.data_source,
           failure_rate |-> FailureRate(result),
           threshold |-> Get(thresholds, "max_failure_rate", F01)] >>
  ELSE <<>>

QualityAlertsOverallLast(result, thresholds) ==
  AnomalyAlert(result, thresholds) \o FailureRateAlert(result, thresholds)
    \o OverallAlert(result, thresholds)

\* the list alerts of _check_quality_alerts when its loop starts (line 808)
QualityAlerts(result, thresholds) ==
  OverallAlert(result, thresholds) \o AnomalyAlert(result, thresholds)
    \o FailureRateAlert(result, thresholds)

\* lines 425-433
AccuracyAlert(metrics, threshold) ==
  IF FLt(metrics.accuracy, threshold)
  THEN << [type |-> "accuracy_degradation",
           severity |-> "critical",
           model_name |-> metrics.model_name,
           current_value |-> metrics.accuracy,
           threshold |-> threshold] >>
  ELSE <<>>

\* lines 436-444
DriftAlert(metrics, threshold) ==
  IF FGt(metrics.drift_score, threshold)
  THEN << [type |-> "model_drift",
           severity |-> "warning",
           model_name |-> metrics.model_name,
           current_value |-> metrics.drift_score,
           threshold |-> threshold] >>
  ELSE <<>>

\* the alert if a confidence of exactly 0.7 raised it too
ConfidenceAlertAtThreshold(metrics) ==
  IF FLe(metrics.confidence_mean, F07)
  THEN << [type |-> "low_confidence",
           severity |-> "warning",
           model_name |-> metrics.model_name,
           current_value |-> metrics.confidence_mean,
           threshold |-> F07] >>
  ELSE <<>>

\* lines 447-455
ConfidenceAlert(metrics) ==
  IF FLt(metrics.confidence_mean, F07)
  THEN << [type |-> "low_confidence",
           severity |-> "warning",
           model_name |-> metrics.model_name,
           current_value |-> metrics.confidence_mean,
           threshold |-> F07] >>
  ELSE <<>>

ModelAlertsDriftTwice(metrics, acc_threshold, dr_threshold) ==
  AccuracyAlert(metrics, acc_threshold) \o DriftAlert(metrics, dr_threshold)
    \o ConfidenceAlert(metrics) \o DriftAlert(metrics, dr_threshold)

ModelAlertsCooldown(metrics, acc_threshold, dr_threshold) ==
  SelectSeq(AccuracyAlert(metrics, acc_threshold) \o DriftAlert(metrics, dr_threshold)
              \o ConfidenceAlert(metrics),
            LAMBDA a : \A i \in 1..Len(ref.alerts) : ref.alerts[i].type # a.type)

\* the list alerts of _check_alerts when its loop starts (line 458)
ModelAlerts(metrics, acc_threshold, dr_threshold) ==
  AccuracyAlert(metrics, acc_threshold) \o DriftAlert(metrics, dr_threshold)
    \o ConfidenceAlert(metrics)

\* _send_quality_alert / _send_alert: the insert and the webhook call either
\* both succeed or one of them raises, which is caught and logged
SendOutcomes == {"sent", "failed"}

\* the arguments the alert checks are called with
QualityResults ==
  { [data_source |-> "race_data", overall_score |-> sc, anomalies_detected |-> an,
     checks_passed |-> ck[1], checks_failed |-> ck[2]] :
      sc \in {FromInt(65), F70, F85},
      an \in {10, 11},
      ck \in {<<0, 0>>, <<9, 1>>, <<8, 2>>} }

\* config.alert_thresholds with no key set
NoThresholds ==
  [overall |-> None, max_anomalies |-> None, max_failure_rate |-> None,
   completeness |-> None, accuracy |-> None, consistency |-> None,
   timeliness |-> None, validity |-> None, uniqueness |-> None]

ThresholdMaps ==
  { NoThresholds,
    [NoThresholds EXCEPT !.overall = FromInt(90), !.max_anomalies = FromInt(11),
                         !.max_failure_rate = FromRat(2, 10)],
    [NoThresholds EXCEPT !.overall = FromInt(60)] }

ModelMetricsSet ==
  { [model_name |-> "race_predictor", accuracy |-> ac, drift_score |-> dr,
     confidence_mean |-> cf] :
      ac \in {FromRat(84, 100), FromRat(85, 100)},
      dr \in {FromRat(5, 100), FromRat(6, 100)},
      cf \in {FromRat(69, 100), F07} }

NoCall == [kind |-> "none", status |-> "done", args |-> <<>>, alerts |-> <<>>]

\* assess_data_source (line 737) calls the check with its result and config
CallCheckQualityAlerts ==
  /\ call.status = "done"
  /\ \E result \in QualityResults, thresholds \in ThresholdMaps :
       call' = [kind |-> "quality", status |-> "called",
                args |-> <<result, thresholds>>, alerts |-> <<>>]
  /\ \E keep \in BOOLEAN : ref' = IF keep THEN ref ELSE call
  /\ sent' = <<>>
  /\ UNCHANGED <<cycleVars, accuracy_threshold, drift_threshold, driftVars, sampleVars, assessVars>>

\* evaluate_model_performance (line 278) calls the check with its metrics
CallCheckAlerts ==
  /\ call.status = "done"
  /\ \E metrics \in ModelMetricsSet :
       call' = [kind |-> "model", status |-> "called",
                args |-> <<metrics>>, alerts |-> <<>>]
  /\ \E keep \in BOOLEAN : ref' = IF keep THEN ref ELSE call
  /\ sent' = <<>>
  /\ UNCHANGED <<cycleVars, accuracy_threshold, drift_threshold, driftVars, sampleVars, assessVars>>

\* the loop if a delivery that failed ended it
SendAllStopAtFailure(alerts) ==
  \E outcomes \in [1..Len(alerts) -> SendOutcomes] :
    sent' = SelectSeq([i \in 1..Len(alerts) |->
                         [alert |-> alerts[i], outcome |-> outcomes[i], at |-> i]],
                      LAMBDA a : \A j \in 1..(a.at - 1) : outcomes[j] = "sent")

\* the loops of lines 808-809 and 458-459: every alert is handed to the sender
\* in list order, whatever became of the one before
SendAll(alerts) ==
  \E outcomes \in [1..Len(alerts) -> SendOutcomes] :
    sent' = [i \in 1..Len(alerts) |-> [alert |-> alerts[i], outcome |-> outcomes[i]]]

_check_quality_alerts ==
  /\ call.kind = "quality" /\ call.status = "called"
  /\ LET alerts == QualityAlerts(call.args[1], call.args[2])
     IN  /\ call' = [call EXCEPT !.status = "done", !.alerts = alerts]
         /\ SendAll(alerts)
  \* back in assess_data_source (line 739), which returns the result
  /\ assess' = IF assess.pc = "alerts" THEN [assess EXCEPT !.pc = "returned"] ELSE assess
  /\ UNCHANGED <<cycleVars, accuracy_threshold, drift_threshold, ref, driftVars, sampleVars,
                 quality_result, store>>

_check_alerts ==
  /\ call.kind = "model" /\ call.status = "called"
  /\ LET alerts == ModelAlerts(call.args[1], accuracy_threshold, drift_threshold)
     IN  /\ call' = [call EXCEPT !.status = "done", !.alerts = alerts]
         /\ SendAll(alerts)
  /\ UNCHANGED <<cycleVars, accuracy_threshold, drift_threshold, ref, driftVars, sampleVars,
                 assessVars>>

NextAlerts ==
  \/ CallCheckQualityAlerts
  \/ _check_quality_alerts
  \/ CallCheckAlerts
  \/ _check_alerts

(***************************************************************************)
(* DataQualityMonitor: samples and rule sets.  A sample is the DataFrame   *)
(* pd.read_sql returned for one table: its columns and its rows.  A cell   *)
(* is NULL, an int, a string or a timestamp (in whole hours).              *)
(***************************************************************************)
Null == [k |-> "null", n |-> 0, s |-> ""]
IntCell(n) == [k |-> "int", n |-> n, s |-> ""]
StrCell(s) == [k |-> "str", n |-> 0, s |-> s]
TsCell(h) == [k |-> "ts", n |-> h, s |-> ""]

\* df[column]
Column(d, column) == [i \in 1..Len(d.rows) |-> d.rows[i][column]]

\* a numeric cell as the float64 pandas holds (NULL is NaN)
ToFloat(cell) == IF cell.k = "null" THEN NaN ELSE FromInt(cell.n)

Floats(cells) == [i \in 1..Len(cells) |-> ToFloat(cells[i])]

\* Series.dropna()
DropNa(xs) == SelectSeq(xs, LAMBDA x : ~IsNaN(x))

\* the numeric columns in the order of df.select_dtypes(...).columns
NumericColumns == <<"rider_id", "power">>

NoSample == [columns |-> {}, rows |-> <<>>]

\* config.quality_rules with no rule of any kind
NoRules ==
  [required_columns |-> <<>>, critical_columns |-> <<>>,
   validation_rules |-> <<>>, consistency_rules |-> <<>>,
   format_consistency |-> <<>>,
   timeliness_rules |-> [timestamp_column |-> "", expected_freshness_hours |-> None,
                         expected_interval_hours |-> None],
   validity_rules |-> <<>>,
   uniqueness_rules |-> [primary_keys |-> <<>>, unique_columns |-> <<>>],
   anomaly_detection |-> <<>>,
   alert_thresholds |-> NoThresholds]

\* the Prometheus client during one assessment: every emission succeeds, or
\* every Gauge.set raises, or every Counter.inc raises
SinkStates == {"up", "gauge_raises", "counter_raises"}

(***************************************************************************)
(* detect_anomalies (lines 586-640).                                       *)
(***************************************************************************)
\* np.std (ddof = 0) of a non-empty array: the root of the mean of the
\* squared deviations from the mean
NpStd(xs) ==
  Let(NpMean(xs), LAMBDA arrmean :
    Let([i \in 1..Len(xs) |-> FSub(xs[i], arrmean)], LAMBDA x :
      FSqrt(NpMean([i \in 1..Len(x) |-> FMul(x[i], x[i])]))))

\* z-scores without the division by the standard deviation
ZScoresUnscaled(xs) ==
  Let(NpMean(xs), LAMBDA mn : [i \in 1..Len(xs) |-> FSub(xs[i], mn)])

\* scipy.stats.zscore: (a - mean) / std; a constant array has std 0 and
\* deviations 0, and 0 / 0 is nan
ZScores(xs) ==
  Let(NpMean(xs), LAMBDA mn :
    Let(NpStd(xs), LAMBDA std :
      [i \in 1..Len(xs) |-> IF IsZero(std) THEN NaN ELSE FDiv(FSub(xs[i], mn), std)]))

\* line 600: (np.abs(z_scores) > threshold).sum()
ZScoreCount(xs, threshold) ==
  IF xs = <<>> THEN 0
  ELSE Let(ZScores(xs), LAMBDA z_scores :
         Cardinality({i \in 1..Len(z_scores) : FGt(FAbs(z_scores[i]), threshold)}))

\* numpy's linear interpolation between two neighbours
Lerp(a, b, t) ==
  Let(FSub(b, a), LAMBDA diff :
    IF FGe(t, FromRat(1, 2))
    THEN FSub(b, FMul(diff, FSub(FromInt(1), t)))
    ELSE FAdd(a, FMul(diff, t)))

\* Series.quantile(q): np.percentile of the non-null values, method linear;
\* nan when there is none.  virtual is numpy's virtual index of q in the
\* sorted values a, previous its floor.
Quantile(xs, q) ==
  IF xs = <<>> THEN NaN
  ELSE Let(SortSeq(xs, FLt), LAMBDA a :
       Let(FSub(FAdd(FMul(FromInt(Len(xs)), q),
                     FAdd(FromInt(1), FMul(q, FromInt(-1)))),
                FromInt(1)), LAMBDA virtual :
       Let(CHOOSE j \in 0..(Len(a) - 1) :
             FLe(FromInt(j), virtual) /\ FLt(virtual, FromInt(j + 1)), LAMBDA previous :
         Lerp(a[previous + 1], a[Min(previous + 1, Len(a) - 1) + 1],
              FSub(virtual, FromInt(previous))))))

\* lines 618-622: Q1, Q3, IQR and the two bounds
IqrBounds(xs) ==
  Let(Quantile(DropNa(xs), FromRat(25, 100)), LAMBDA Q1 :
  Let(Quantile(DropNa(xs), FromRat(75, 100)), LAMBDA Q3 :
  Let(FSub(Q3, Q1), LAMBDA IQR :
    [lower_bound |-> FSub(Q1, FMul(FromRat(15, 10), IQR)),
     upper_bound |-> FAdd(Q3, FMul(FromRat(15, 10), IQR))])))

\* the same with the bounds themselves counted as outside
IqrCountInclusive(xs) ==
  Let(IqrBounds(xs), LAMBDA bounds :
    Cardinality({i \in 1..Len(xs) :
                   FLe(xs[i], bounds.lower_bound) \/ FGe(xs[i], bounds.upper_bound)}))

\* lines 618-625: the rows below Q1 - 1.5 * IQR or above Q3 + 1.5 * IQR
IqrCount(xs) ==
  Let(IqrBounds(xs), LAMBDA bounds :
    Cardinality({i \in 1..Len(xs) :
                   FLt(xs[i], bounds.lower_bound) \/ FGt(xs[i], bounds.upper_bound)}))

\* anomaly_rules[column].get('method', 'zscore') / .get('threshold', 3); a
\* key that is absent is held as "" / None
RuleMethod(rule) == IF rule.method = "" THEN "zscore" ELSE rule.method
RuleThreshold(rule) == IF rule.threshold = None THEN FromInt(3) ELSE rule.threshold

\* the record lines 603-609 and 627-633 append
AnomalyRecord(type, column, method, anomaly_count, rows) ==
  [type |-> type, column |-> column, method |-> method, count |-> anomaly_count,
   percentage |-> FMul(FDiv(FromInt(anomaly_count), FromInt(rows)), FromInt(100))]

\* one pass of the loop of line 593 for a column that has a rule; no method
\* other than zscore and iqr counts anything
ColumnAnomalies(d, column, rule) ==
  Let(Floats(Column(d, column)), LAMBDA xs :
  Let(IF RuleMethod(rule) = "zscore"
      THEN ZScoreCount(DropNa(xs), RuleThreshold(rule))
      ELSE IF RuleMethod(rule) = "iqr" THEN IqrCount(xs)
      ELSE 0, LAMBDA anomaly_count :
    IF anomaly_count > 0
    THEN << AnomalyRecord(IF RuleMethod(rule) = "zscore" THEN "statistical_outlier"
                          ELSE "iqr_outlier",
                          column, RuleMethod(rule), anomaly_count, Len(d.rows)) >>
    ELSE <<>>))

\* the rules of anomaly_rules for a column, at most one (a dict)
RulesFor(anomaly_rules, column) ==
  SelectSeq(anomaly_rules, LAMBDA r : r.column = column)

RECURSIVE AnomaliesFrom(_, _, _)
\* the loop of line 593 from the i-th numeric column on
AnomaliesFrom(d, anomaly_rules, i) ==
  IF i > Len(NumericColumns) THEN <<>>
  ELSE Let(RulesFor(anomaly_rules, NumericColumns[i]), LAMBDA rules :
         (IF NumericColumns[i] \in d.columns /\ rules # <<>>
          THEN ColumnAnomalies(d, NumericColumns[i], rules[1]) ELSE <<>>)
         \o AnomaliesFrom(d, anomaly_rules, i + 1))

\* lines 612-615: Counter.inc is called inside the try for a z-score
\* anomaly, and a raise there returns [] (lines 638-640)
detect_anomalies(d, cfg) ==
  Let(AnomaliesFrom(d, cfg.anomaly_detection, 1), LAMBDA anomalies :
    IF /\ sink = "counter_raises"
       /\ \E i \in 1..Len(anomalies) : anomalies[i].method = "zscore"
    THEN <<>> ELSE anomalies)

\* the samples and rules the detector is run on: one numeric column
MaxRows == 5

AnomalyCells == {IntCell(1), IntCell(100), Null}

AnomalySamples ==
  UNION { { [columns |-> {"power"}, rows |-> [i \in 1..n |-> [power |-> cells[i]]]] :
              cells \in [1..n -> AnomalyCells] } : n \in 1..MaxRows }

AnomalyRules ==
  { <<>>,
    << [column |-> "power", method |-> "", threshold |-> None] >>,
    << [column |-> "power", method |-> "zscore", threshold |-> FromRat(15, 10)] >>,
    << [column |-> "power", method |-> "iqr", threshold |-> None] >>,
    << [column |-> "power", method |-> "mad", threshold |-> None] >> }

NotDetected == [done |-> FALSE, anomalies |-> <<>>]

DetectAnomalies ==
  /\ ~detection.done
  /\ detection' = [done |-> TRUE, anomalies |-> detect_anomalies(df, config)]
  /\ UNCHANGED <<cycleVars, config, df, driftVars, alertVars, assessVars>>

NextAnomaly == DetectAnomalies

(***************************************************************************)
(* The six dimension evaluators.  Each returns its score and its issues;   *)
(* an exception that escapes the body is the pair (0, [error issue]).      *)
(***************************************************************************)
RECURSIVE Concat(_)
Concat(ss) == IF ss = <<>> THEN <<>> ELSE Head(ss) \o Concat(Tail(ss))

\* what one rule adds to the lists scores and issues
Part(scores, issues) == [scores |-> scores, issues |-> issues]
NoPart == [scores |-> <<>>, issues |-> <<>>]

PartScores(parts) == Concat([i \in 1..Len(parts) |-> parts[i].scores])
PartIssues(parts) == Concat([i \in 1..Len(parts) |-> parts[i].issues])

\* an issue; a key the code does not set is "" here (0 for the key table),
\* and score is None where the issue has no score (issue.get('score', 0)
\* then reads 0)
Issue(type, severity, column, rule, score) ==
  [type |-> type, severity |-> severity, column |-> column, rule |-> rule,
   score |-> score, table |-> 0]

ErrorIssue == Issue("error", "", "", "", None)

\* np.mean(scores) if scores else 100
MeanOr100(scores) == IF scores = <<>> THEN FromInt(100) ELSE NpMean(scores)

Returned(scores, issues) == [score |-> MeanOr100(scores), issues |-> issues]

\* the issue of a table whose assessment raised (lines 702-706); the tables
\* of a data source are told apart by how many were left when theirs began
TableErrorIssue(table_name) == [ErrorIssue EXCEPT !.table = table_name]

\* the except clause of an evaluator
Raised == [score |-> FZero, issues |-> <<ErrorIssue>>]

\* (count / rows) * 100 if rows > 0 else 0
Percent(count, rows) ==
  IF rows > 0 THEN FMul(FDiv(FromInt(count), FromInt(rows)), FromInt(100))
  ELSE FZero

IsNull(cell) == cell.k = "null"

CountRows(d, Keep(_)) == Cardinality({i \in 1..Len(d.rows) : Keep(d.rows[i])})

\* the evaluator's return when no exception escaped its body
ReturnedParts(parts) == Returned(PartScores(parts), PartIssues(parts))

\* the same for an evaluator that sets its gauge before it returns (lines
\* 222, 303, 382, 462, 519): the gauge is set inside the try, so a raise of
\* Gauge.set is caught by the except clause of the evaluator
GaugedParts(parts) == IF sink = "gauge_raises" THEN Raised ELSE ReturnedParts(parts)

\* ---- assess_data_completeness (lines 173-228) ----
\* a required column if one the sample lacks raised its issue and was left
\* out of the scores
RequiredColumnPartSkippingAbsent(d, cfg, column) ==
  IF column \in d.columns
  THEN Let(Percent(Len(d.rows) - CountRows(d, LAMBDA row : IsNull(row[column])),
                   Len(d.rows)), LAMBDA completeness :
         Part(<<completeness>>,
              IF FLt(completeness, Get(cfg.alert_thresholds, "completeness", FromInt(95)))
              THEN << Issue("completeness",
                            IF FLt(completeness, FromInt(80)) THEN "high" ELSE "medium",
                            column, "", completeness) >>
              ELSE <<>>))
  ELSE Part(<<>>, << Issue("completeness", "critical", column, "", FZero) >>)

\* lines 182-205: the score of a required column, and its issue when the
\* score is below the threshold
RequiredColumnPart(d, cfg, column) ==
  IF column \in d.columns
  THEN Let(Percent(Len(d.rows) - CountRows(d, LAMBDA row : IsNull(row[column])),
                   Len(d.rows)), LAMBDA completeness :
         Part(<<completeness>>,
              IF FLt(completeness, Get(cfg.alert_thresholds, "completeness", FromInt(95)))
              THEN << Issue("completeness",
                            IF FLt(completeness, FromInt(80)) THEN "high" ELSE "medium",
                            column, "", completeness) >>
              ELSE <<>>))
  ELSE Part(<<FZero>>, << Issue("completeness", "critical", column, "", FZero) >>)

\* lines 208-217
CriticalColumnPart(d, column) ==
  Let(IF column \in d.columns
      THEN CountRows(d, LAMBDA row : IsNull(row[column])) ELSE 0, LAMBDA null_count :
    IF null_count > 0
    THEN Part(<<>>, << Issue("completeness", "critical", column, "",
                             Percent(Len(d.rows) - null_count, Len(d.rows))) >>)
    ELSE NoPart)

assess_data_completeness(d, cfg) ==
  GaugedParts([i \in 1..Len(cfg.required_columns) |->
                   RequiredColumnPart(d, cfg, cfg.required_columns[i])]
                \o [i \in 1..Len(cfg.critical_columns) |->
                      CriticalColumnPart(d, cfg.critical_columns[i])])

\* ---- assess_data_accuracy (lines 230-309) ----
\* a validation rule: [column, min_value, max_value, pattern, allowed_values];
\* min_value / max_value are None, pattern and allowed_values are <<>> when
\* the key is absent, else <<the regex>> and <<the set of allowed cells>>
HasRange(rules) == rules.min_value # None \/ rules.max_value # None

\* the strings of the samples each regex of the rule sets matches at their
\* start (Series.str.match)
RegexMatches(pattern) ==
  IF pattern = "[A-Z]{3}$" THEN {"UAE", "SOQ"}
  ELSE IF pattern = "[a-zA-Z]+" THEN {"UAE", "SOQ", "uae", "None"}
  ELSE {}

\* astype(str) of the cell of an object column: None becomes 'None'
AsStr(cell) == IF cell.k = "null" THEN "None" ELSE cell.s

\* df[column] >= min_val, df[column] <= max_val: False for NaN
InRange(cell, rules) ==
  /\ cell.k = "int"
  /\ rules.min_value = None \/ FGe(FromInt(cell.n), rules.min_value)
  /\ rules.max_value = None \/ FLe(FromInt(cell.n), rules.max_value)

\* lines 238-298 for one column: the validations its rules ask for, in the
\* order of lines 245, 264, 281, each with the share of valid rows as its
\* score and an issue when that is below 95
ValidationRulePart(d, rules) ==
  IF rules.column \notin d.columns THEN <<>>
  ELSE Let((IF HasRange(rules) THEN <<"range_validation">> ELSE <<>>)
           \o (IF rules.pattern # <<>> THEN <<"pattern_validation">> ELSE <<>>)
           \o (IF rules.allowed_values # <<>> THEN <<"enum_validation">> ELSE <<>>),
           LAMBDA validations :
         [i \in 1..Len(validations) |->
            Let(Percent(IF validations[i] = "range_validation"
                        THEN CountRows(d, LAMBDA row : InRange(row[rules.column], rules))
                        ELSE IF validations[i] = "pattern_validation"
                        THEN CountRows(d, LAMBDA row :
                               AsStr(row[rules.column]) \in RegexMatches(rules.pattern[1]))
                        ELSE CountRows(d, LAMBDA row :
                               row[rules.column] \in rules.allowed_values[1]),
                        Len(d.rows)), LAMBDA accuracy :
              Part(<<accuracy>>,
                   IF FLt(accuracy, FromInt(95))
                   THEN << Issue("accuracy", "medium", rules.column, validations[i],
                                 accuracy) >>
                   ELSE <<>>))])

\* a range comparison of a column of strings or timestamps raises TypeError
ValidationRuleRaises(d, rules) ==
  /\ rules.column \in d.columns
  /\ HasRange(rules)
  /\ \E i \in 1..Len(d.rows) : d.rows[i][rules.column].k \in {"str", "ts"}

assess_data_accuracy(d, cfg) ==
  IF \E i \in 1..Len(cfg.validation_rules) :
       ValidationRuleRaises(d, cfg.validation_rules[i])
  THEN Raised
  ELSE GaugedParts(Concat([i \in 1..Len(cfg.validation_rules) |->
                               ValidationRulePart(d, cfg.validation_rules[i])]))

\* ---- assess_data_consistency (lines 311-388) ----
\* a consistency rule: [name, type, column1, column2, operator]; type is ""
\* when the key is absent, and rule_config['type'] then raises KeyError
Holds(operator, a, b) ==
  /\ ~IsNull(a) /\ ~IsNull(b)
  /\ \/ operator = "greater_than" /\ a.n > b.n
     \/ operator = "less_than" /\ a.n < b.n
     \/ operator = "equal" /\ a.n = b.n

ConsistencyCheck(consistency, column, rule) ==
  Part(<<consistency>>,
       IF FLt(consistency, FromInt(95))
       THEN << Issue("consistency", "medium", column, rule, consistency) >>
       ELSE <<>>)

CrossColumnPart(d, rule) ==
  IF /\ rule.type = "cross_column"
     /\ rule.column1 \in d.columns /\ rule.column2 \in d.columns
     /\ rule.operator \in {"greater_than", "less_than", "equal"}
  THEN ConsistencyCheck(Percent(CountRows(d, LAMBDA row :
                                  Holds(rule.operator, row[rule.column1], row[rule.column2])),
                                Len(d.rows)),
                        "", rule.name)
  ELSE NoPart

\* a format rule: [column, expected_format]
FormatPart(d, rule) ==
  IF rule.column \in d.columns /\ rule.expected_format = "date"
  THEN ConsistencyCheck(Percent(CountRows(d, LAMBDA row : ~IsNull(row[rule.column])),
                                Len(d.rows)),
                        rule.column, "date_format")
  ELSE NoPart

assess_data_consistency(d, cfg) ==
  IF \E i \in 1..Len(cfg.consistency_rules) : cfg.consistency_rules[i].type = ""
  THEN Raised
  ELSE GaugedParts([i \in 1..Len(cfg.consistency_rules) |->
                        CrossColumnPart(d, cfg.consistency_rules[i])]
                     \o [i \in 1..Len(cfg.format_consistency) |->
                           FormatPart(d, cfg.format_consistency[i])])

\* ---- assess_data_timeliness (lines 390-468) ----
\* datetime.now() at line 404, in hours on the scale of the timestamps
CurrentTime == 100

\* max(0, x) of Python: x when x > 0, else 0 (also for nan)
Max0(x) == IF FGt(x, FZero) THEN x ELSE FZero

\* pd.to_datetime raises on a cell that is no timestamp
ParseFails(d, column) == \E i \in 1..Len(d.rows) : d.rows[i][column].k = "str"

\* the parsed timestamps that are not NaT
Timestamps(d, column) ==
  Let(SelectSeq(Column(d, column), LAMBDA c : c.k = "ts"), LAMBDA cells :
    [i \in 1..Len(cells) |-> cells[i].n])

\* a difference of timestamps as .total_seconds() / 3600
Hours(h) == FDiv(FromInt(h * 3600), FromInt(3600))

RECURSIVE MaxOf(_)
MaxOf(hs) ==
  IF Len(hs) = 1 THEN hs[1]
  ELSE Let(MaxOf(Tail(hs)), LAMBDA rest : IF hs[1] > rest THEN hs[1] ELSE rest)

\* lines 403-406; nan when every timestamp is NaT
FreshnessHours(d, column) ==
  IF Timestamps(d, column) = <<>> THEN NaN
  ELSE Hours(CurrentTime - MaxOf(Timestamps(d, column)))

\* line 409
FreshnessScore(freshness_hours, expected_freshness_hours) ==
  Max0(FSub(FromInt(100),
            FMul(FDiv(freshness_hours, expected_freshness_hours), FromInt(100))))

\* lines 400-433
FreshnessPart(d, rules) ==
  IF \/ ParseFails(d, rules.timestamp_column)
     \/ IsZero(Get(rules, "expected_freshness_hours", FromInt(24)))
  THEN Part(<<>>, << Issue("timeliness", "high", rules.timestamp_column, "", FZero) >>)
  ELSE Let(FreshnessHours(d, rules.timestamp_column), LAMBDA freshness_hours :
       Let(Get(rules, "expected_freshness_hours", FromInt(24)),
           LAMBDA expected_freshness_hours :
       Let(FreshnessScore(freshness_hours, expected_freshness_hours),
           LAMBDA freshness_score :
         Part(<<freshness_score>>,
              IF FGt(freshness_hours, expected_freshness_hours)
              THEN << Issue("timeliness",
                            IF FGt(freshness_hours,
                                   FMul(expected_freshness_hours, FromInt(2)))
                            THEN "high" ELSE "medium",
                            rules.timestamp_column, "", freshness_score) >>
              ELSE <<>>))))

\* lines 441-442: the gaps between neighbours of the sorted timestamps that
\* exceed twice the expected interval (a gap to a NaT is nan)
LargeGaps(d, rules) ==
  Let(SortSeq(Timestamps(d, rules.timestamp_column), <), LAMBDA ts :
  Let(FMul(Get(rules, "expected_interval_hours", FromInt(1)), FromInt(2)), LAMBDA limit :
    Cardinality({i \in 2..Len(ts) : FGt(Hours(ts[i] - ts[i - 1]), limit)})))

\* lines 436-457
GapPart(d, rules) ==
  IF ParseFails(d, rules.timestamp_column) THEN NoPart
  ELSE Let(LargeGaps(d, rules), LAMBDA large_gaps :
         IF large_gaps = 0 THEN NoPart
         ELSE Let(Max0(FSub(FromInt(100),
                            FMul(FDiv(FromInt(large_gaps), FromInt(Len(d.rows))),
                                 FromInt(100)))), LAMBDA gap_score :
                Part(<<gap_score>>,
                     << Issue("timeliness", "medium", "", "data_gaps", gap_score) >>)))

assess_data_timeliness(d, cfg) ==
  GaugedParts(IF /\ cfg.timeliness_rules.timestamp_column # ""
                   /\ cfg.timeliness_rules.timestamp_column \in d.columns
                THEN << FreshnessPart(d, cfg.timeliness_rules),
                        GapPart(d, cfg.timeliness_rules) >>
                ELSE <<>>)

\* ---- assess_data_validity (lines 470-525) ----
\* a validity rule: [name, type, expression, function]; type is "" and
\* expression, function are <<>> when the key is absent (KeyError, caught at
\* line 499).  The class defines no _validate_ method, so hasattr (line 491)
\* is False for every function name.
ValidityRulePart(rule) ==
  IF rule.type = "" THEN Part(<<>>, << Issue("validity", "medium", "", rule.name, FZero) >>)
  ELSE IF rule.type = "sql_expression"
  THEN (IF rule.expression = <<>>
        THEN Part(<<>>, << Issue("validity", "medium", "", rule.name, FZero) >>)
        ELSE Part(<<FromInt(95)>>, <<>>))
  ELSE IF rule.type = "custom_function" /\ rule.function = <<>>
  THEN Part(<<>>, << Issue("validity", "medium", "", rule.name, FZero) >>)
  ELSE NoPart

assess_data_validity(d, cfg) ==
  GaugedParts([i \in 1..Len(cfg.validity_rules) |->
                   ValidityRulePart(cfg.validity_rules[i])])

\* ---- assess_data_uniqueness (lines 527-584) ----
\* df.drop_duplicates(subset=pk_set).shape[0]
DistinctRows(d, pk_set) ==
  Cardinality({ [j \in 1..Len(pk_set) |-> d.rows[i][pk_set[j]]] : i \in 1..Len(d.rows) })

\* the check if a score of exactly 95 were below the boundary too
UniquenessCheckBelowAtBoundary(uniqueness, column, below95) ==
  Part(<<uniqueness>>,
       IF FLt(uniqueness, FromInt(100))
       THEN << Issue("uniqueness",
                     IF FLe(uniqueness, FromInt(95)) THEN below95 ELSE "medium",
                     column, "", uniqueness) >>
       ELSE <<>>)

\* lines 542-551 and 568-577
UniquenessCheck(uniqueness, column, below95) ==
  Part(<<uniqueness>>,
       IF FLt(uniqueness, FromInt(100))
       THEN << Issue("uniqueness",
                     IF FLt(uniqueness, FromInt(95)) THEN below95 ELSE "medium",
                     column, "", uniqueness) >>
       ELSE <<>>)

PrimaryKeyPart(d, pk_set) ==
  IF \A j \in 1..Len(pk_set) : pk_set[j] \in d.columns
  THEN UniquenessCheck(Percent(DistinctRows(d, pk_set), Len(d.rows)), pk_set[1], "high")
  ELSE NoPart

\* lines 562-577; df[column].nunique() counts the distinct values that are
\* not null
UniqueColumnPart(d, column) ==
  IF column \in d.columns
  THEN UniquenessCheck(Percent(Cardinality({d.rows[i][column] : i \in 1..Len(d.rows)}
                                             \ {Null}),
                               CountRows(d, LAMBDA row : ~IsNull(row[column]))),
                       column, "medium")
  ELSE NoPart

assess_data_uniqueness(d, cfg) ==
  \* lines 555-558: the gauge is set for a primary key that has duplicates
  IF /\ sink = "gauge_raises"
     /\ \E i \in 1..Len(cfg.uniqueness_rules.primary_keys) :
          PrimaryKeyPart(d, cfg.uniqueness_rules.primary_keys[i]).issues # <<>>
  THEN Raised
  ELSE ReturnedParts([i \in 1..Len(cfg.uniqueness_rules.primary_keys) |->
                        PrimaryKeyPart(d, cfg.uniqueness_rules.primary_keys[i])]
                     \o [i \in 1..Len(cfg.uniqueness_rules.unique_columns) |->
                           UniqueColumnPart(d, cfg.uniqueness_rules.unique_columns[i])])

(***************************************************************************)
(* The samples and rule sets the assessments are run on.                   *)
(***************************************************************************)
AllColumns == {"rider_id", "power", "recorded_at", "team"}

Row(rider_id, power, recorded_at, team) ==
  [rider_id |-> rider_id, power |-> power, recorded_at |-> recorded_at, team |-> team]

\* complete, fresh rows
CleanSample ==
  [columns |-> AllColumns,
   rows |-> << Row(IntCell(1), IntCell(250), TsCell(CurrentTime - 2), StrCell("UAE")),
               Row(IntCell(2), IntCell(300), TsCell(CurrentTime - 1), StrCell("SOQ")) >>]

\* the newest timestamp is an hour ahead of the clock of the monitor
FutureSample ==
  [columns |-> AllColumns,
   rows |-> << Row(IntCell(1), IntCell(250), TsCell(CurrentTime - 1), StrCell("UAE")),
               Row(IntCell(2), IntCell(260), TsCell(CurrentTime + 1), StrCell("UAE")) >>]

\* nulls, a duplicate key, a value out of range, stale rows with a gap
DirtySample ==
  [columns |-> AllColumns,
   rows |-> << Row(IntCell(1), IntCell(250), TsCell(CurrentTime - 90), StrCell("uae")),
               Row(IntCell(1), Null, TsCell(CurrentTime - 60), Null),
               Row(Null, IntCell(2000), Null, StrCell("UAE")) >>]

\* a timestamp column that does not parse
GarbageSample ==
  [columns |-> AllColumns,
   rows |-> << Row(IntCell(1), IntCell(250), StrCell("yesterday"), StrCell("UAE")) >>]

\* twenty complete, fresh rows, the last of which repeats the rider of the
\* one before
RepeatedKeySample ==
  [columns |-> AllColumns,
   rows |-> [i \in 1..20 |->
               Row(IntCell(IF i = 20 THEN 19 ELSE i), IntCell(250 + i),
                   TsCell(CurrentTime - 1), StrCell("UAE"))]]

\* a table without the columns power and team
NarrowSample ==
  [columns |-> {"rider_id", "recorded_at"},
   rows |-> << [rider_id |-> IntCell(1), recorded_at |-> TsCell(CurrentTime - 1)],
               [rider_id |-> IntCell(2), recorded_at |-> TsCell(CurrentTime - 1)] >>]

TableSamples ==
  {CleanSample, FutureSample, DirtySample, GarbageSample, RepeatedKeySample, NarrowSample}

CompletenessOnly == [NoRules EXCEPT !.required_columns = <<"power">>]

TimelinessOnly ==
  [NoRules EXCEPT !.timeliness_rules.timestamp_column = "recorded_at"]

FullRules ==
  [required_columns |-> <<"rider_id", "power">>,
   critical_columns |-> <<"rider_id">>,
   validation_rules |->
     << [column |-> "power", min_value |-> FZero, max_value |-> FromInt(1000),
         pattern |-> <<>>, allowed_values |-> <<>>],
        [column |-> "team", min_value |-> None, max_value |-> None,
         pattern |-> <<"[A-Z]{3}$">>,
         allowed_values |-> << {StrCell("UAE"), StrCell("SOQ")} >>] >>,
   consistency_rules |->
     << [name |-> "id_below_power", type |-> "cross_column", column1 |-> "rider_id",
         column2 |-> "power", operator |-> "less_than"] >>,
   format_consistency |-> << [column |-> "recorded_at", expected_format |-> "date"] >>,
   timeliness_rules |-> [timestamp_column |-> "recorded_at",
                         expected_freshness_hours |-> FromInt(24),
                         expected_interval_hours |-> None],
   validity_rules |->
     << [name |-> "positive_power", type |-> "sql_expression",
         expression |-> <<"power > 0">>, function |-> <<>>],
        [name |-> "power_curve", type |-> "custom_function",
         expression |-> <<>>, function |-> <<"power_curve">>] >>,
   uniqueness_rules |-> [primary_keys |-> << <<"rider_id">> >>,
                         unique_columns |-> <<"rider_id">>],
   anomaly_detection |-> << [column |-> "power", method |-> "iqr", threshold |-> None] >>,
   alert_thresholds |-> [NoThresholds EXCEPT !.completeness = FromInt(60)]]

\* rules the evaluators trip over: a range on a column of strings, and
\* rules that lack their type
BrokenRules ==
  [NoRules EXCEPT
     !.required_columns = <<"rider_id">>,
     !.critical_columns = <<"power">>,
     !.alert_thresholds = [NoThresholds EXCEPT !.completeness = FromInt(60)],
     !.validation_rules = << [column |-> "team", min_value |-> FZero, max_value |-> None,
                              pattern |-> <<>>, allowed_values |-> <<>>] >>,
     !.consistency_rules = << [name |-> "untyped", type |-> "", column1 |-> "rider_id",
                               column2 |-> "power", operator |-> "equal"] >>,
     !.validity_rules = << [name |-> "untyped", type |-> "", expression |-> <<>>,
                            function |-> <<>>] >>]

AssessConfigs == {NoRules, CompletenessOnly, TimelinessOnly, FullRules, BrokenRules}

\* the most tables a data source lists
MaxTables == 2

(***************************************************************************)
(* assess_data_source (lines 642-743).                                     *)
(***************************************************************************)
NotAssessing ==
  [pc |-> "idle", tables_left |-> 0, all_scores |-> <<>>, all_issues |-> <<>>,
   total_anomalies |-> 0, checks_passed |-> 0, checks_failed |-> 0,
   table_scores |-> <<>>]

NoResult ==
  [data_source |-> "", table_name |-> "", completeness_score |-> None,
   accuracy_score |-> None, consistency_score |-> None, timeliness_score |-> None,
   validity_score |-> None, uniqueness_score |-> None, overall_score |-> None,
   anomalies_detected |-> 0, checks_passed |-> 0, checks_failed |-> 0,
   issues |-> <<>>]

\* lines 674-679, in the order of table_scores (line 686)
Evaluations(d, cfg) ==
  << assess_data_completeness(d, cfg), assess_data_accuracy(d, cfg),
     assess_data_consistency(d, cfg), assess_data_timeliness(d, cfg),
     assess_data_validity(d, cfg), assess_data_uniqueness(d, cfg) >>

\* issue.get('score', 0)
IssueScore(issue) == IF issue.score = None THEN FZero ELSE issue.score

\* lines 695-698: does the issue count as a passed check
CheckPassed(issue, cfg) ==
  FGe(IssueScore(issue), Get(cfg.alert_thresholds, issue.type, FromInt(95)))

CountIssues(issues, Keep(_)) == Cardinality({i \in 1..Len(issues) : Keep(issues[i])})

\* the loop body if an evaluator that raised aborted the table as a failed
\* read does (lines 700-707)
AssessedTableAbortOnError(d, cfg) ==
  Let(Evaluations(d, cfg), LAMBDA evals :
  Let([i \in 1..6 |-> evals[i].score], LAMBDA table_scores :
  Let(Concat([i \in 1..6 |-> evals[i].issues]), LAMBDA table_issues :
  Let(detect_anomalies(d, cfg), LAMBDA anomalies :
    IF \E i \in 1..6 : evals[i] = Raised
    THEN [assess EXCEPT !.tables_left = @ - 1,
                        !.all_issues = Append(@, TableErrorIssue(assess.tables_left)),
                        !.checks_failed = @ + 1]
    ELSE [assess EXCEPT
            !.tables_left = @ - 1,
            !.total_anomalies = @ + Len(anomalies),
            !.all_scores = @ \o table_scores,
            !.all_issues = @ \o table_issues,
            !.checks_passed = @ + CountIssues(table_issues,
                                  LAMBDA issue : issue.type # "error" /\ CheckPassed(issue, cfg)),
            !.checks_failed = @ + CountIssues(table_issues,
                                  LAMBDA issue : issue.type # "error" /\ ~CheckPassed(issue, cfg)),
            !.table_scores = table_scores]))))

\* the loop body if an issue of type error counted as a failed check
AssessedTableCountingErrors(d, cfg) ==
  Let(Evaluations(d, cfg), LAMBDA evals :
  Let([i \in 1..6 |-> evals[i].score], LAMBDA table_scores :
  Let(Concat([i \in 1..6 |-> evals[i].issues]), LAMBDA table_issues :
  Let(detect_anomalies(d, cfg), LAMBDA anomalies :
    [assess EXCEPT
       !.tables_left = @ - 1,
       !.total_anomalies = @ + Len(anomalies),
       !.all_scores = @ \o table_scores,
       !.all_issues = @ \o table_issues,
       !.checks_passed = @ + CountIssues(table_issues,
                             LAMBDA issue : issue.type # "error" /\ CheckPassed(issue, cfg)),
       !.checks_failed = @ + CountIssues(table_issues,
                             LAMBDA issue : issue.type = "error" \/ ~CheckPassed(issue, cfg)),
       !.table_scores = table_scores]))))

\* the body of the loop for a table whose sample is not empty (lines
\* 670-698): table_scores and table_issues are collected and the checks
\* counted
AssessedTable(d, cfg) ==
  Let(Evaluations(d, cfg), LAMBDA evals :
  Let([i \in 1..6 |-> evals[i].score], LAMBDA table_scores :
  Let(Concat([i \in 1..6 |-> evals[i].issues]), LAMBDA table_issues :
  Let(detect_anomalies(d, cfg), LAMBDA anomalies :
    [assess EXCEPT
       !.tables_left = @ - 1,
       !.total_anomalies = @ + Len(anomalies),
       !.all_scores = @ \o table_scores,
       !.all_issues = @ \o table_issues,
       !.checks_passed = @ + CountIssues(table_issues,
                             LAMBDA issue : issue.type # "error" /\ CheckPassed(issue, cfg)),
       !.checks_failed = @ + CountIssues(table_issues,
                             LAMBDA issue : issue.type # "error" /\ ~CheckPassed(issue, cfg)),
       !.table_scores = table_scores]))))

\* one pass of the loop of line 659 over a sample that has rows
AssessTable ==
  /\ assess.pc = "tables" /\ assess.tables_left > 0
  /\ \E d \in TableSamples :
       /\ df' = d
       /\ detection' = [done |-> TRUE, anomalies |-> detect_anomalies(d, config)]
       /\ assess' = AssessedTable(d, config)
  /\ UNCHANGED <<cycleVars, config, quality_result, store, driftVars, alertVars>>

\* lines 665-667: the table has no rows
SkipEmptyTable ==
  /\ assess.pc = "tables" /\ assess.tables_left > 0
  /\ df' = [columns |-> AllColumns, rows |-> <<>>]
  /\ assess' = [assess EXCEPT !.tables_left = @ - 1]
  /\ UNCHANGED <<cycleVars, config, detection, quality_result, store, driftVars, alertVars>>

\* the handler if it recorded the issue and left the counters alone
FailTableUncounted ==
  /\ assess.pc = "tables" /\ assess.tables_left > 0
  /\ assess' = [assess EXCEPT !.tables_left = @ - 1,
                              !.all_issues = Append(@, TableErrorIssue(assess.tables_left))]
  /\ UNCHANGED <<cycleVars, config, df, detection, quality_result, store, driftVars, alertVars>>

\* lines 700-707: pd.read_sql raises
FailTable ==
  /\ assess.pc = "tables" /\ assess.tables_left > 0
  /\ assess' = [assess EXCEPT !.tables_left = @ - 1,
                              !.all_issues = Append(@, TableErrorIssue(assess.tables_left)),
                              !.checks_failed = @ + 1]
  /\ UNCHANGED <<cycleVars, config, df, detection, quality_result, store, driftVars, alertVars>>

\* the result if its overall score were the mean of the six scores of the
\* last table assessed
BuiltResultOverallOfLastTable ==
  LET dimension(i) == IF assess.all_scores # <<>> THEN assess.table_scores[i] ELSE FZero
  IN  [data_source |-> "race_data", table_name |-> "overall",
       completeness_score |-> dimension(1), accuracy_score |-> dimension(2),
       consistency_score |-> dimension(3), timeliness_score |-> dimension(4),
       validity_score |-> dimension(5), uniqueness_score |-> dimension(6),
       overall_score |-> IF assess.all_scores # <<>> THEN NpMean(assess.table_scores)
                         ELSE FZero,
       anomalies_detected |-> assess.total_anomalies,
       checks_passed |-> assess.checks_passed,
       checks_failed |-> assess.checks_failed,
       issues |-> assess.all_issues]

\* the result if a data source without a score came out as 100, as a
\* dimension without a rule does
BuiltResultHundredWithoutScores ==
  LET dimension(i) == IF assess.all_scores # <<>> THEN assess.table_scores[i]
                      ELSE FromInt(100)
  IN  [data_source |-> "race_data", table_name |-> "overall",
       completeness_score |-> dimension(1), accuracy_score |-> dimension(2),
       consistency_score |-> dimension(3), timeliness_score |-> dimension(4),
       validity_score |-> dimension(5), uniqueness_score |-> dimension(6),
       overall_score |-> IF assess.all_scores # <<>> THEN NpMean(assess.all_scores)
                         ELSE FromInt(100),
       anomalies_detected |-> assess.total_anomalies,
       checks_passed |-> assess.checks_passed,
       checks_failed |-> assess.checks_failed,
       issues |-> assess.all_issues]

\* lines 710-727
BuiltResult ==
  LET dimension(i) == IF assess.all_scores # <<>> THEN assess.table_scores[i] ELSE FZero
  IN  [data_source |-> "race_data", table_name |-> "overall",
       completeness_score |-> dimension(1), accuracy_score |-> dimension(2),
       consistency_score |-> dimension(3), timeliness_score |-> dimension(4),
       validity_score |-> dimension(5), uniqueness_score |-> dimension(6),
       overall_score |-> IF assess.all_scores # <<>> THEN NpMean(assess.all_scores)
                         ELSE FZero,
       anomalies_detected |-> assess.total_anomalies,
       checks_passed |-> assess.checks_passed,
       checks_failed |-> assess.checks_failed,
       issues |-> assess.all_issues]

\* _store_quality_results (lines 745-767): the insert commits; or it raises
\* and the rollback succeeds; or the rollback raises too, which
\* assess_data_source catches at line 741 to return None
StoreOutcomes == {"committed", "rolled_back", "rollback_raised"}

\* lines 710-737: build the result, count the checks on the Prometheus
\* counter, store the result, and call the alert check.  A raise of
\* Counter.inc (lines 730-731) is caught at line 741 and None is returned.
BuildAndStoreResult ==
  /\ assess.pc = "tables" /\ assess.tables_left = 0
  /\ quality_result' = BuiltResult
  /\ IF sink = "counter_raises"
     THEN /\ assess' = [assess EXCEPT !.pc = "failed"]
          /\ UNCHANGED <<store, call, sent>>
     ELSE \E outcome \in StoreOutcomes :
            /\ store' = outcome
            /\ IF outcome = "rollback_raised"
               THEN /\ assess' = [assess EXCEPT !.pc = "failed"]
                    /\ UNCHANGED <<call, sent>>
               ELSE /\ assess' = [assess EXCEPT !.pc = "alerts"]
                    /\ call' = [kind |-> "quality", status |-> "called",
                                args |-> <<BuiltResult, config.alert_thresholds>>,
                                alerts |-> <<>>]
                    /\ sent' = <<>>
  /\ UNCHANGED <<cycleVars, accuracy_threshold, drift_threshold, ref, config, df,
                 detection, driftVars>>

NextAssess ==
  \/ AssessTable
  \/ SkipEmptyTable
  \/ FailTable
  \/ BuildAndStoreResult
  \/ _check_quality_alerts

(***************************************************************************)
(* run_monitoring_cycle (lines 838-862): every data source is assessed by  *)
(* a worker thread of the pool, and all workers use self.db_connection.    *)
(* A psycopg2 connection has one open transaction: whatever a cursor of    *)
(* any thread executed since the last commit or rollback.  A worker's      *)
(* assessment is one step here (what it built or that it raised); its      *)
(* statements on the connection are steps of their own.                    *)
(***************************************************************************)
\* the most data sources a cycle assesses
MaxSources == 2

Sources == 1..MaxSources

NoCycle == [worker |-> <<>>, pending |-> {}, committed |-> {}, results |-> <<>>]

\* the workers as executor.submit leaves them (lines 845-849)
Submitted ==
  [NoCycle EXCEPT !.worker = [w \in Sources |->
                                [pc |-> "submitted", store |-> "none", alert |-> FALSE]]]

ResultRow(w) == [table |-> "data_quality_results", data_source |-> w]
AlertRow(w) == [table |-> "data_quality_alerts", data_source |-> w]

\* where a worker goes after _store_quality_results: _check_quality_alerts
\* sends the alert of its result if it has one, and the result is returned
AfterStore(w) == IF cycle.worker[w].alert THEN "alert_insert" ELSE "returned"

\* assess_data_source up to the result (lines 642-727), or an exception in
\* it, which the handler of line 741 turns into None
WorkerAssess(w) ==
  /\ cycle.worker[w].pc = "submitted"
  /\ \E outcome \in {"result", "result_with_alert", "raised"} :
       cycle' = [cycle EXCEPT
                   !.worker[w].pc = IF outcome = "raised" THEN "returned_none"
                                    ELSE "insert",
                   !.worker[w].alert = (outcome = "result_with_alert")]
  /\ UNCHANGED <<sink, driftVars, alertVars, sampleVars, assessVars>>

\* lines 747-761: cursor.execute of the INSERT, which may raise
StoreInsert(w) ==
  /\ cycle.worker[w].pc = "insert"
  /\ \E raised \in BOOLEAN :
       cycle' = IF raised
                THEN [cycle EXCEPT !.worker[w].pc = "rollback"]
                ELSE [cycle EXCEPT !.worker[w].pc = "commit",
                                   !.pending = @ \cup {ResultRow(w)}]
  /\ UNCHANGED <<sink, driftVars, alertVars, sampleVars, assessVars>>

\* line 763: commit makes the whole transaction of the connection durable
StoreCommit(w) ==
  /\ cycle.worker[w].pc = "commit"
  /\ \E raised \in BOOLEAN :
       cycle' = IF raised
                THEN [cycle EXCEPT !.worker[w].pc = "rollback"]
                ELSE [cycle EXCEPT !.worker[w].pc = AfterStore(w),
                                   !.worker[w].store = "committed",
                                   !.committed = @ \cup cycle.pending,
                                   !.pending = {}]
  /\ UNCHANGED <<sink, driftVars, alertVars, sampleVars, assessVars>>

\* lines 765-767: rollback discards the whole transaction of the
\* connection; when it raises, the handler of line 741 returns None
StoreRollback(w) ==
  /\ cycle.worker[w].pc = "rollback"
  /\ \E raised \in BOOLEAN :
       cycle' = IF raised
                THEN [cycle EXCEPT !.worker[w].pc = "returned_none",
                                   !.worker[w].store = "rollback_raised"]
                ELSE [cycle EXCEPT !.worker[w].pc = AfterStore(w),
                                   !.worker[w].store = "rolled_back",
                                   !.pending = {}]
  /\ UNCHANGED <<sink, driftVars, alertVars, sampleVars, assessVars>>

\* lines 813-824: the INSERT of the alert; a raise is logged (line 835)
AlertInsert(w) ==
  /\ cycle.worker[w].pc = "alert_insert"
  /\ \E raised \in BOOLEAN :
       cycle' = IF raised
                THEN [cycle EXCEPT !.worker[w].pc = "returned"]
                ELSE [cycle EXCEPT !.worker[w].pc = "alert_commit",
                                   !.pending = @ \cup {AlertRow(w)}]
  /\ UNCHANGED <<sink, driftVars, alertVars, sampleVars, assessVars>>

\* line 826
AlertCommit(w) ==
  /\ cycle.worker[w].pc = "alert_commit"
  /\ cycle' = [cycle EXCEPT !.worker[w].pc = "returned",
                            !.committed = @ \cup cycle.pending,
                            !.pending = {}]
  /\ UNCHANGED <<sink, driftVars, alertVars, sampleVars, assessVars>>

\* lines 851-859: the result of a completed future is appended if it is one
CollectResult(w) ==
  /\ cycle.worker[w].pc \in {"returned", "returned_none"}
  /\ cycle' = [cycle EXCEPT
                 !.worker[w].pc = "collected",
                 !.results = IF cycle.worker[w].pc = "returned"
                             THEN Append(@, w) ELSE @]
  /\ UNCHANGED <<sink, driftVars, alertVars, sampleVars, assessVars>>

run_monitoring_cycle ==
  \E w \in Sources :
    \/ WorkerAssess(w)
    \/ StoreInsert(w)
    \/ StoreCommit(w)
    \/ StoreRollback(w)
    \/ AlertInsert(w)
    \/ AlertCommit(w)
    \/ CollectResult(w)

NextCycle == run_monitoring_cycle

\* the monitors after construction, before any alert check; the thresholds
\* of the tracker come from the environment (lines 99-100)
InitAlerts ==
  /\ baseline_metrics = EmptyDict
  /\ current_metrics = EmptyDict
  /\ drift_score = None
  /\ accuracy_threshold \in {FromRat(85, 100), FromRat(90, 100)}
  /\ drift_threshold = FromRat(5, 100)
  /\ config = NoRules
  /\ df = NoSample
  /\ detection = NotDetected
  /\ assess = NotAssessing
  /\ quality_result = NoResult
  /\ store = "none"
  /\ call = NoCall
  /\ sent = <<>>
  /\ ref = NoCall
  /\ sink = "up"
  /\ cycle = NoCycle

SpecAlerts == InitAlerts /\ [][NextAlerts]_vars

\* the tracker after construction: the baseline is loaded once by _load_models
InitDrift ==
  /\ baseline_metrics \in Baselines
  /\ current_metrics = EmptyDict
  /\ drift_score = None
  /\ accuracy_threshold = FromRat(85, 100)
  /\ drift_threshold = FromRat(5, 100)
  /\ config = NoRules
  /\ df = NoSample
  /\ detection = NotDetected
  /\ assess = NotAssessing
  /\ quality_result = NoResult
  /\ store = "none"
  /\ call = NoCall
  /\ sent = <<>>
  /\ ref = NoCall
  /\ sink = "up"
  /\ cycle = NoCycle

NextDrift == CalculateDriftScore

SpecDrift == InitDrift /\ [][NextDrift]_vars

\* detect_anomalies called with a sample and the rules of its data source
InitAnomaly ==
  /\ baseline_metrics = EmptyDict
  /\ current_metrics = EmptyDict
  /\ drift_score = None
  /\ accuracy_threshold = FromRat(85, 100)
  /\ drift_threshold = FromRat(5, 100)
  /\ config \in {[NoRules EXCEPT !.anomaly_detection = r] : r \in AnomalyRules}
  /\ df \in AnomalySamples
  /\ detection = NotDetected
  /\ assess = NotAssessing
  /\ quality_result = NoResult
  /\ store = "none"
  /\ call = NoCall
  /\ sent = <<>>
  /\ ref = NoCall
  /\ sink = "up"
  /\ cycle = NoCycle

SpecAnomaly == InitAnomaly /\ [][NextAnomaly]_vars

\* assess_data_source entered for a configured source, before its first table
InitAssess ==
  /\ baseline_metrics = EmptyDict
  /\ current_metrics = EmptyDict
  /\ drift_score = None
  /\ accuracy_threshold = FromRat(85, 100)
  /\ drift_threshold = FromRat(5, 100)
  /\ config \in AssessConfigs
  /\ df = NoSample
  /\ detection = NotDetected
  /\ \E n \in 0..MaxTables : assess = [NotAssessing EXCEPT !.pc = "tables", !.tables_left = n]
  /\ quality_result = NoResult
  /\ store = "none"
  /\ call = NoCall
  /\ sent = <<>>
  /\ ref = NoCall
  /\ sink \in SinkStates
  /\ cycle = NoCycle

SpecAssess == InitAssess /\ [][NextAssess]_vars

\* run_monitoring_cycle after it submitted every data source to the pool
InitCycle ==
  /\ baseline_metrics = EmptyDict
  /\ current_metrics = EmptyDict
  /\ drift_score = None
  /\ accuracy_threshold = FromRat(85, 100)
  /\ drift_threshold = FromRat(5, 100)
  /\ config = NoRules
  /\ df = NoSample
  /\ detection = NotDetected
  /\ assess = NotAssessing
  /\ quality_result = NoResult
  /\ store = "none"
  /\ call = NoCall
  /\ sent = <<>>
  /\ ref = NoCall
  /\ sink = "up"
  /\ cycle = Submitted

SpecCycle == InitCycle /\ [][NextCycle]_vars

(***************************************************************************)
(* Properties of the alert checks.                                         *)
(***************************************************************************)
QualityDone == call.kind = "quality" /\ call.status = "done"
ModelDone == call.kind = "model" /\ call.status = "done"

HasAlert(alerts, type) == \E i \in 1..Len(alerts) : alerts[i].type = type

\* the effective overall threshold of a call: the configured one, else 85
OverallThresholdOf(c) ==
  IF c.args[2].overall = None THEN FromInt(85) ELSE c.args[2].overall

\* C1: the data-quality check raises overall_quality_degradation exactly when
\* the overall score is strictly below the configured overall threshold (85
\* when none is configured); a score equal to the threshold raises none.
C1_OverallAlertIffBelow ==
  QualityDone =>
    (HasAlert(call.alerts, "overall_quality_degradation")
       <=> FLt(call.args[1].overall_score, OverallThresholdOf(call)))

\* a score of exactly 85 under the default threshold, and no such alert
C1_Witness ==
  /\ QualityDone
  /\ call.args[2].overall = None
  /\ call.args[1].overall_score = FromInt(85)
  /\ ~HasAlert(call.alerts, "overall_quality_degradation")

\* C2: in the list built by either check no warning precedes a critical
\* alert, and the alerts are handed to the sender in the order of the list.
C2_SevereFirstAndSentInOrder ==
  call.status = "done" =>
    /\ \A i, j \in 1..Len(call.alerts) :
         i < j => ~(call.alerts[i].severity = "warning"
                    /\ call.alerts[j].severity = "critical")
    /\ Len(sent) = Len(call.alerts)
    /\ \A i \in 1..Len(sent) : sent[i].alert = call.alerts[i]

\* a critical overall alert followed by two warnings, all three sent
C2_Witness ==
  /\ QualityDone
  /\ Len(call.alerts) = 3
  /\ call.alerts[1].severity = "critical"
  /\ call.alerts[2].severity = "warning"
  /\ Len(sent) = 3

\* C3: within one evaluation every alert kind appears at most once.
C3_KindAtMostOnce ==
  call.status = "done" =>
    \A i, j \in 1..Len(call.alerts) :
      call.alerts[i].type = call.alerts[j].type => i = j

\* all three model alerts raised by one evaluation
C3_Witness ==
  /\ ModelDone
  /\ HasAlert(call.alerts, "accuracy_degradation")
  /\ HasAlert(call.alerts, "model_drift")
  /\ HasAlert(call.alerts, "low_confidence")

DriftEvaluated == current_metrics # EmptyDict

\* a baseline entry the scorer can use: a standard deviation that is a
\* number above zero
Qualifies(mn) ==
  /\ baseline_metrics # EmptyDict
  /\ baseline_metrics[mn].std.k = "num"
  /\ ~baseline_metrics[mn].std.neg
  /\ baseline_metrics[mn].std.m # <<>>

MetricSet == {MetricNames[i] : i \in 1..Len(MetricNames)}

\* exactly one metric qualifies: current 0.70, mean 0.90, std 0.05
SingleMetricCase ==
  /\ DriftEvaluated
  /\ \E mn \in MetricSet :
       /\ Qualifies(mn)
       /\ baseline_metrics[mn].mean = FromRat(90, 100)
       /\ baseline_metrics[mn].std = FromRat(5, 100)
       /\ current_metrics[mn] = FromRat(70, 100)
       /\ \A other \in MetricSet \ {mn} : ~Qualifies(other)

\* 4 + 2^-50, the double next above 4.0 (printed 4.000000000000001)
NextAboveFour == [k |-> "num", neg |-> FALSE, m |-> BAdd(BShl(<<1>>, 52), <<1>>), e |-> -50]

\* C9 as stated: the drift score is 0 without a baseline, and is exactly 4.0
\* for a single metric with current 0.70, mean 0.90 and std 0.05.
C9_ExactlyFour ==
  /\ (DriftEvaluated /\ baseline_metrics = EmptyDict) => drift_score = FZero
  /\ SingleMetricCase => drift_score = FromInt(4)

\* C9 amended: the drift score is 0 without a baseline; for that single
\* metric it is the double next above 4.0, so it equals 4.0 only to within
\* one unit in the last place.
C9_FourWithinRounding ==
  /\ (DriftEvaluated /\ baseline_metrics = EmptyDict) => drift_score = FZero
  /\ SingleMetricCase =>
       /\ drift_score = NextAboveFour
       /\ FGt(drift_score, FromInt(4))
       /\ FLe(FSub(drift_score, FromInt(4)), FromRat(1, 2 ^ 30))

C9_Witness == SingleMetricCase /\ drift_score = NextAboveFour

\* the contributions of the qualifying metrics, in the order of the dict
QualifyingContributions ==
  LET q == SelectSeq(MetricNames, Qualifies)
  IN  [i \in 1..Len(q) |->
         FDiv(FAbs(FSub(current_metrics[q[i]], baseline_metrics[q[i]].mean)),
              baseline_metrics[q[i]].std)]

\* C10: the drift score is the mean of |current - mean| / std over the
\* metrics whose baseline mean and std are present with std > 0; the others
\* enter neither the sum nor the divisor; it is 0 when none qualifies.
C10_MeanOverQualifying ==
  DriftEvaluated =>
    IF QualifyingContributions = <<>> THEN drift_score = FZero
    ELSE drift_score = FDiv(NpSum(QualifyingContributions),
                            FromInt(Len(QualifyingContributions)))

\* two metrics qualify, one has std 0 and one has a NaN std
C10_Witness ==
  /\ DriftEvaluated
  /\ Len(QualifyingContributions) = 2
  /\ \E a, b \in MetricSet : /\ baseline_metrics[a].std = FZero
                             /\ IsNaN(baseline_metrics[b].std)
  /\ FGt(drift_score, FZero)

(***************************************************************************)
(* Properties of the anomaly detector.                                     *)
(***************************************************************************)
\* the column power holds 1, 1, 1, 1, 100
OutlierSample ==
  /\ df.columns = {"power"}
  /\ Column(df, "power") = <<IntCell(1), IntCell(1), IntCell(1), IntCell(1), IntCell(100)>>

\* its rule is method zscore with threshold 3, spelled out or by default
ZScoreThreeRule ==
  /\ Len(config.anomaly_detection) = 1
  /\ config.anomaly_detection[1].column = "power"
  /\ config.anomaly_detection[1].method \in {"", "zscore"}
  /\ \/ config.anomaly_detection[1].threshold = None
     \/ config.anomaly_detection[1].threshold = FromInt(3)

IqrRule ==
  /\ Len(config.anomaly_detection) = 1
  /\ config.anomaly_detection[1].column = "power"
  /\ config.anomaly_detection[1].method = "iqr"

\* C7 as stated: for the values 1, 1, 1, 1, 100 under a zscore rule with
\* threshold 3 the detector reports at least one anomaly for the column.
C7_OutlierReported ==
  (detection.done /\ OutlierSample /\ ZScoreThreeRule)
    => \E i \in 1..Len(detection.anomalies) : detection.anomalies[i].column = "power"

\* C7 amended: for those values under that rule the detector reports no
\* anomaly: the population z-score of 100 is 2, which is not above 3.
C7_OutlierNotReported ==
  (detection.done /\ OutlierSample /\ ZScoreThreeRule)
    => /\ detection.anomalies = <<>>
       /\ LET z == ZScores(Floats(Column(df, "power")))
          IN  \A i \in 1..Len(z) : FLe(FAbs(z[i]), FromInt(2))

C7_Witness ==
  /\ detection.done /\ OutlierSample /\ ZScoreThreeRule
  /\ Len(detection.anomalies) = 0

\* C8: for the values 1, 1, 1, 1, 100 under an iqr rule, Q1 and Q3 are the
\* 25th and 75th percentiles (both 1), and the detector reports exactly one
\* record for the column, with count 1.
C8_IqrOneOutlier ==
  (detection.done /\ OutlierSample /\ IqrRule)
    => /\ Quantile(Floats(Column(df, "power")), FromRat(25, 100)) = FromInt(1)
       /\ Quantile(Floats(Column(df, "power")), FromRat(75, 100)) = FromInt(1)
       /\ Len(detection.anomalies) = 1
       /\ detection.anomalies[1].column = "power"
       /\ detection.anomalies[1].method = "iqr"
       /\ detection.anomalies[1].count = 1

C8_Witness ==
  /\ detection.done /\ OutlierSample /\ IqrRule
  /\ Len(detection.anomalies) = 1
  /\ detection.anomalies[1].percentage = FromInt(20)

(***************************************************************************)
(* Properties of the assessment.                                           *)
(***************************************************************************)
\* does the rule set hold a rule for the i-th dimension (in the order
\* completeness, accuracy, consistency, timeliness, validity, uniqueness)
HasRules(cfg, i) ==
  CASE i = 1 -> cfg.required_columns # <<>> \/ cfg.critical_columns # <<>>
    [] i = 2 -> cfg.validation_rules # <<>>
    [] i = 3 -> cfg.consistency_rules # <<>> \/ cfg.format_consistency # <<>>
    [] i = 4 -> cfg.timeliness_rules.timestamp_column # ""
    [] i = 5 -> cfg.validity_rules # <<>>
    [] i = 6 -> cfg.uniqueness_rules.primary_keys # <<>>
                  \/ cfg.uniqueness_rules.unique_columns # <<>>

RuledDimensions(cfg) == SelectSeq(<<1, 2, 3, 4, 5, 6>>, LAMBDA i : HasRules(cfg, i))

\* the assessment built its result from exactly one assessed table
OneTableResult == assess.pc \in {"alerts", "returned", "failed"} /\ Len(assess.all_scores) = 6

\* C5 as stated: the overall score is the mean of the scores of only the
\* dimensions that have a rule; a dimension without rules is not counted.
C5_MeanOverRuledDimensions ==
  (OneTableResult /\ RuledDimensions(config) # <<>>)
    => quality_result.overall_score =
         NpMean([j \in 1..Len(RuledDimensions(config)) |->
                   assess.table_scores[RuledDimensions(config)[j]]])

\* C6 as stated: each of the six dimension scores of an assessed table lies
\* in [0, 100].
C6_ScoresWithinRange ==
  \A i \in 1..Len(assess.table_scores) :
    /\ FGe(assess.table_scores[i], FZero)
    /\ FLe(assess.table_scores[i], FromInt(100))

(***************************************************************************)
(* Properties of the error handling of an assessment.                      *)
(***************************************************************************)
\* the last table of the loop whose sample had rows has been assessed, and
\* df is still its sample
TableAssessed == detection.done /\ df.rows # <<>>

IsSeqMember(x, xs) == \E k \in 1..Len(xs) : xs[k] = x

\* C11: when an evaluator raised on the sample of a table, the assessment
\* still holds for the table the score of each of the six evaluators, and
\* every issue each of them returns, as the evaluator gives them for the
\* sample on its own.
C11_OthersUnaffected ==
  TableAssessed =>
    Let(Evaluations(df, config), LAMBDA evals :
      (\E i \in 1..6 : evals[i] = Raised) =>
        /\ Len(assess.table_scores) = 6
        /\ \A j \in 1..6 :
             /\ assess.table_scores[j] = evals[j].score
             /\ \A k \in 1..Len(evals[j].issues) :
                  IsSeqMember(evals[j].issues[k], assess.all_issues))

\* an evaluator raised on its rules while another scored the sample above 0
\* and a third reported an issue of its own
C11_Witness ==
  /\ TableAssessed /\ sink = "up" /\ Len(assess.table_scores) = 6
  /\ Let(Evaluations(df, config), LAMBDA evals :
       /\ \E i \in 1..6 : evals[i] = Raised
       /\ \E j \in 1..6 : evals[j] # Raised /\ FGt(assess.table_scores[j], FZero)
       /\ \E j \in 1..6 : \E k \in 1..Len(evals[j].issues) :
            evals[j].issues[k].type # "error")

\* C12 as stated: the issue of an evaluator that raised has severity
\* critical, and the overall score of a one-table result is the mean of the
\* scores of the evaluators that did not raise (here with every metric
\* emitted, so that an evaluator raises on its rules only).
C12_ErrorExcludedFromOverall ==
  (OneTableResult /\ TableAssessed /\ sink = "up") =>
    Let(Evaluations(df, config), LAMBDA evals :
    Let(SelectSeq(<<1, 2, 3, 4, 5, 6>>, LAMBDA i : evals[i] # Raised), LAMBDA ran :
      (Len(ran) \in 1..5) =>
        /\ \A k \in 1..Len(quality_result.issues) :
             quality_result.issues[k].type = "error"
               => quality_result.issues[k].severity = "critical"
        /\ quality_result.overall_score =
             NpMean([j \in 1..Len(ran) |-> evals[ran[j]].score])))

(***************************************************************************)
(* Properties of the monitoring cycle.                                     *)
(***************************************************************************)
CycleDone == \A w \in Sources : cycle.worker[w].pc = "collected"

\* C13 as stated, for a data source: when the cycle is over, every data
\* source it assessed is recorded in its results, one that failed as much
\* as one that did not.
C13_FailedUnitRecorded ==
  (cycle.worker # <<>> /\ CycleDone) =>
    \A w \in Sources : IsSeqMember(w, cycle.results)

\* C14 as stated: what _store_quality_results of a worker saw is what
\* became of its row.  A worker whose INSERT and commit both succeeded has
\* its result in the database, and a worker whose store was rolled back
\* does not.
C14_NoInterference ==
  \A w \in DOMAIN cycle.worker :
    /\ cycle.worker[w].store = "committed" => ResultRow(w) \in cycle.committed
    /\ cycle.worker[w].store = "rolled_back" => ResultRow(w) \notin cycle.committed

(***************************************************************************)
(* Properties of storing the result and of sending its alerts.             *)
(***************************************************************************)
\* C15 as stated: when storing the result failed, whatever became of the
\* rollback, the assessment goes on to its alert check and returns; it
\* never ends as failed.
C15_StoreFailureKeepsAlerts ==
  store \in {"rolled_back", "rollback_raised"} => assess.pc # "failed"

\* the delivery attempts the sender made for the alert of sent[i]
Attempts(i) == Cardinality({j \in 1..Len(sent) : sent[j].alert = sent[i].alert})

\* C16 as stated: an alert whose delivery failed is attempted exactly one
\* more time, so it has two attempts.
C16_FailedDeliveryRetriedOnce ==
  \A i \in 1..Len(sent) : sent[i].outcome = "failed" => Attempts(i) = 2

\* C17: once the alert check of an assessment is over, every alert of its
\* list was handed to the sender, in list order, whatever the outcome of
\* the deliveries before it, and the assessment has returned the result it
\* built.
C17_DeliveryFailureKeepsResult ==
  QualityDone =>
    /\ Len(sent) = Len(call.alerts)
    /\ \A i \in 1..Len(sent) : i <= Len(call.alerts) /\ sent[i].alert = call.alerts[i]
    /\ assess.pc = "returned"
    /\ quality_result = call.args[1]

\* the delivery of the first of two alerts failed, the second was sent
C17_Witness ==
  /\ QualityDone /\ assess.pc = "returned"
  /\ Len(call.alerts) = 2 /\ Len(sent) = 2
  /\ sent[1].outcome = "failed" /\ sent[2].outcome = "sent"

\* C18 as stated: whatever the metrics sink does, a data source without
\* any rule scores 100 in every dimension of a table, and the assessment
\* ends as failed only when the rollback of its store raised.
C18_SinkFailureKeepsAssessment ==
  /\ assess.pc = "failed" => store = "rollback_raised"
  /\ (TableAssessed /\ config = NoRules) =>
       \A j \in 1..Len(assess.table_scores) : assess.table_scores[j] = FromInt(100)

\* the issues one pass of the table loop added
NewIssues ==
  SubSeq(assess'.all_issues, Len(assess.all_issues) + 1, Len(assess'.all_issues))

\* the threshold registered for the dimension of an issue, 95 when none is
ThresholdOf(issue) ==
  IF config.alert_thresholds[issue.type] = None THEN FromInt(95)
  ELSE config.alert_thresholds[issue.type]

\* the issues among them that are no errors and whose score is, or is not,
\* at or above their threshold
Counted(issues, passed) ==
  Cardinality({k \in 1..Len(issues) :
                 /\ issues[k].type # "error"
                 /\ passed = FGe(IF issues[k].score = None THEN FZero ELSE issues[k].score,
                                 ThresholdOf(issues[k]))})

\* C19: a pass of the table loop that assessed a sample adds to
\* checks_passed the number of its issues that are no errors and score at
\* or above the threshold of their dimension (95 when none is registered),
\* and to checks_failed the number of those that score below; an issue of
\* type error adds to neither.
C19_CountedPerIssue ==
  [][Len(assess'.all_scores) > Len(assess.all_scores) =>
       /\ assess'.checks_passed = assess.checks_passed + Counted(NewIssues, TRUE)
       /\ assess'.checks_failed = assess.checks_failed + Counted(NewIssues, FALSE)]_vars

\* one assessed table left an issue that passed, an issue that failed and
\* the error issue of an evaluator, and only the first two were counted
C19_Witness ==
  /\ Len(assess.all_scores) = 6 /\ sink = "up"
  /\ assess.checks_passed = 1 /\ assess.checks_failed = 1
  /\ Len(assess.all_issues) > 2
  /\ \E k \in 1..Len(assess.all_issues) : assess.all_issues[k].type = "error"

\* C20: the data-quality check raises high_failure_rate exactly when there
\* is a counted check and checks_failed / (checks_passed + checks_failed)
\* is strictly above max_failure_rate (0.1 when none is configured); with
\* no counted check the rate is 0 and no such alert is raised.
C20_FailureRateAlertIffAbove ==
  QualityDone =>
    (HasAlert(call.alerts, "high_failure_rate")
       <=> /\ call.args[1].checks_passed + call.args[1].checks_failed > 0
           /\ FGt(FromRat(call.args[1].checks_failed,
                          call.args[1].checks_passed + call.args[1].checks_failed),
                  IF call.args[2].max_failure_rate = None THEN FromRat(1, 10)
                  ELSE call.args[2].max_failure_rate))

\* one failed check of ten under the default threshold: a rate of exactly
\* 0.1 and no alert
C20_Witness ==
  /\ QualityDone
  /\ call.args[2].max_failure_rate = None
  /\ call.args[1].checks_passed = 9 /\ call.args[1].checks_failed = 1
  /\ ~HasAlert(call.alerts, "high_failure_rate")

\* the alerts of the given type in a list
AlertsOf(alerts, type) == SelectSeq(alerts, LAMBDA a : a.type = type)

\* C21: an overall_quality_degradation alert is critical when the overall
\* score is below 70 and warning otherwise, whatever the overall threshold;
\* under a threshold below 70 a score from the threshold up to 70 raises no
\* such alert.
C21_OverallSeverityBySeventy ==
  QualityDone =>
    /\ \A i \in 1..Len(call.alerts) :
         call.alerts[i].type = "overall_quality_degradation" =>
           call.alerts[i].severity =
             IF FLt(call.args[1].overall_score, F70) THEN "critical" ELSE "warning"
    /\ (/\ FLt(OverallThresholdOf(call), F70)
        /\ FGe(call.args[1].overall_score, OverallThresholdOf(call))
        /\ FLt(call.args[1].overall_score, F70))
         => ~HasAlert(call.alerts, "overall_quality_degradation")

\* a score of exactly 70 under the default threshold: the alert is a warning
C21_Witness ==
  /\ QualityDone
  /\ call.args[2].overall = None
  /\ call.args[1].overall_score = F70
  /\ AlertsOf(call.alerts, "overall_quality_degradation") # <<>>
  /\ AlertsOf(call.alerts, "overall_quality_degradation")[1].severity = "warning"

\* the effective anomaly threshold of a call: the configured one, else 10
MaxAnomaliesOf(c) ==
  IF c.args[2].max_anomalies = None THEN FromInt(10) ELSE c.args[2].max_anomalies

\* C22: the anomaly_spike alert, a warning, is raised exactly when the
\* anomalies_detected of the result is strictly above the max_anomalies
\* threshold (10 when none is configured); a count equal to it raises none.
C22_AnomalyAlertIffAbove ==
  QualityDone =>
    /\ HasAlert(call.alerts, "anomaly_spike")
         <=> FGt(FromInt(call.args[1].anomalies_detected), MaxAnomaliesOf(call))
    /\ \A i \in 1..Len(call.alerts) :
         call.alerts[i].type = "anomaly_spike" => call.alerts[i].severity = "warning"

\* ten anomalies under the default threshold of 10, and no such alert
C22_Witness ==
  /\ QualityDone
  /\ call.args[2].max_anomalies = None
  /\ call.args[1].anomalies_detected = 10
  /\ ~HasAlert(call.alerts, "anomaly_spike")

\* the severity of the alert of the given type, "none" when there is none
SeverityOf(alerts, type) ==
  IF HasAlert(alerts, type) THEN AlertsOf(alerts, type)[1].severity ELSE "none"

\* C23: the model check raises accuracy_degradation (critical) exactly when
\* accuracy is below the accuracy threshold, model_drift (warning) exactly
\* when the drift score is above the drift threshold, and low_confidence
\* (warning) exactly when the mean confidence is below 0.7; each of the three
\* depends on its own comparison only, and equality raises nothing.
C23_ModelAlertsIffBeyond ==
  ModelDone =>
    /\ SeverityOf(call.alerts, "accuracy_degradation") =
         IF FLt(call.args[1].accuracy, accuracy_threshold) THEN "critical" ELSE "none"
    /\ SeverityOf(call.alerts, "model_drift") =
         IF FGt(call.args[1].drift_score, drift_threshold) THEN "warning" ELSE "none"
    /\ SeverityOf(call.alerts, "low_confidence") =
         IF FLt(call.args[1].confidence_mean, FromRat(7, 10)) THEN "warning" ELSE "none"

\* accuracy and confidence exactly at their thresholds and a drift score
\* above its own: the drift alert alone
C23_Witness ==
  /\ ModelDone
  /\ call.args[1].accuracy = accuracy_threshold
  /\ call.args[1].confidence_mean = FromRat(7, 10)
  /\ FGt(call.args[1].drift_score, drift_threshold)
  /\ Len(call.alerts) = 1
  /\ call.alerts[1].type = "model_drift"

(***************************************************************************)
(* Properties of the dimension evaluators.  Each is stated of the sample   *)
(* and the rules of the table last assessed, with every metric emitted     *)
(* (sink = "up"), so that an evaluator returns what its rules give.        *)
(***************************************************************************)
Evaluated == TableAssessed /\ sink = "up" /\ Len(assess.table_scores) = 6

SeqToSet(xs) == {xs[i] : i \in 1..Len(xs)}

\* the required column is in the sample and none of its cells is NULL
FullyPopulated(d, column) ==
  column \in d.columns /\ \A i \in 1..Len(d.rows) : ~IsNull(d.rows[i][column])

IssuesOn(issues, column) == SelectSeq(issues, LAMBDA issue : issue.column = column)

\* C24: on a sample with rows, required columns that are all present without
\* a NULL give the completeness score 100 and no issue on any of them; a
\* required column the sample lacks counts as a score of 0 among the
\* required columns and raises exactly one issue, of severity critical.
C24_RequiredColumnsScore ==
  (Evaluated /\ config.required_columns # <<>>) =>
    Let(assess_data_completeness(df, config), LAMBDA result :
    Let(SeqToSet(config.required_columns), LAMBDA required :
      /\ assess.table_scores[1] = result.score
      /\ (\A c \in required : FullyPopulated(df, c)) =>
           /\ result.score = FromInt(100)
           /\ \A c \in required : IssuesOn(result.issues, c) = <<>>
      /\ (\A c \in required : c \in df.columns => FullyPopulated(df, c)) =>
           result.score =
             FDiv(FromInt(100 * Cardinality(required \cap df.columns)),
                  FromInt(Cardinality(required)))
      /\ \A c \in required \ df.columns :
           /\ Len(IssuesOn(result.issues, c)) = 1
           /\ IssuesOn(result.issues, c)[1].type = "completeness"
           /\ IssuesOn(result.issues, c)[1].severity = "critical"
           /\ IssuesOn(result.issues, c)[1].score = FZero))

\* one required column fully populated and the other absent: the score is 50
C24_Witness ==
  /\ Evaluated
  /\ Len(config.required_columns) = 2
  /\ FullyPopulated(df, config.required_columns[1])
  /\ config.required_columns[2] \notin df.columns
  /\ assess.table_scores[1] = FromInt(50)

\* the primary-key sets of the rules whose columns are all in the sample
PresentKeySets(d, cfg) ==
  SelectSeq(cfg.uniqueness_rules.primary_keys,
            LAMBDA pk_set : \A j \in 1..Len(pk_set) : pk_set[j] \in d.columns)

\* C25: for a primary-key set whose columns are all in the sample, rows that
\* repeat a key give the sub-score 100 * distinct rows / rows (to within
\* rounding), which is below 100, and exactly one issue for the key set: of
\* severity high when 100 * distinct rows / rows is below 95 and medium from
\* 95 on; without a repeated key the key set raises no issue.
C25_DuplicateKeyIssue ==
  Evaluated =>
    \A k \in 1..Len(PresentKeySets(df, config)) :
      Let(PrimaryKeyPart(df, PresentKeySets(df, config)[k]), LAMBDA part :
      Let(DistinctRows(df, PresentKeySets(df, config)[k]), LAMBDA distinct :
        /\ Len(part.scores) = 1
        /\ FLe(FAbs(FSub(part.scores[1], FromRat(100 * distinct, Len(df.rows)))),
               FromRat(1, 1000000))
        /\ distinct < Len(df.rows) =>
             /\ FLt(part.scores[1], FromInt(100))
             /\ Len(part.issues) = 1
             /\ part.issues[1].type = "uniqueness"
             /\ part.issues[1].severity =
                  IF 100 * distinct < 95 * Len(df.rows) THEN "high" ELSE "medium"
             /\ IsSeqMember(part.issues[1], assess.all_issues)
        /\ distinct = Len(df.rows) => part.issues = <<>>))

\* one repeated key among twenty rows: the sub-score is exactly 95 and the
\* issue is of severity medium
C25_Witness ==
  /\ Evaluated
  /\ PresentKeySets(df, config) # <<>>
  /\ Len(df.rows) = 20
  /\ DistinctRows(df, PresentKeySets(df, config)[1]) = 19
  /\ \E i \in 1..Len(assess.all_issues) :
       /\ assess.all_issues[i].type = "uniqueness"
       /\ assess.all_issues[i].severity = "medium"
       /\ assess.all_issues[i].score = FromInt(95)

\* the rules name a timestamp column, the sample has it, and pd.to_datetime
\* raises on it
TimestampUnparsed ==
  /\ config.timeliness_rules.timestamp_column # ""
  /\ config.timeliness_rules.timestamp_column \in df.columns
  /\ ParseFails(df, config.timeliness_rules.timestamp_column)

\* C26 as stated: a timestamp column that cannot be parsed raises an issue of
\* severity critical with score 0, and the timeliness score of the table is
\* 0.
C26_UnparsedTimestampScoresZero ==
  (Evaluated /\ TimestampUnparsed) =>
    /\ assess.table_scores[4] = FZero
    /\ \E i \in 1..Len(assess.all_issues) :
         /\ assess.all_issues[i].type = "timeliness"
         /\ assess.all_issues[i].severity = "critical"
         /\ assess.all_issues[i].score = FZero

\* the validity rules that name a validation function; the class defines no
\* _validate_ method, so none of the names is known
UnknownValidatorRules(cfg) ==
  SelectSeq(cfg.validity_rules,
            LAMBDA rule : rule.type = "custom_function" /\ rule.function # <<>>)

\* C27 as stated: a validity rule that names an unknown validator raises one
\* issue of severity medium for the rule and adds no score, and the other
\* rules are still scored: the dimension does not fail.
C27_UnknownValidatorIssue ==
  (Evaluated /\ UnknownValidatorRules(config) # <<>>) =>
    Let(assess_data_validity(df, config), LAMBDA result :
      /\ result # Raised
      /\ assess.table_scores[5] = result.score
      /\ \A k \in 1..Len(UnknownValidatorRules(config)) :
           /\ ValidityRulePart(UnknownValidatorRules(config)[k]).scores = <<>>
           /\ Cardinality({i \in 1..Len(result.issues) :
                             /\ result.issues[i].type = "validity"
                             /\ result.issues[i].severity = "medium"
                             /\ result.issues[i].rule = UnknownValidatorRules(config)[k].name})
                = 1)

(***************************************************************************)
(* Properties of the result of an assessment.                              *)
(***************************************************************************)
\* assess_data_source has built its result (line 712)
ResultBuilt == assess.pc \in {"alerts", "returned", "failed"}

\* the issues of tables whose assessment raised: they alone name a table
TableErrors(issues) == SelectSeq(issues, LAMBDA issue : issue.type = "error" /\ issue.table # 0)

\* C28: in the result of an assessment checks_passed + checks_failed is the
\* number of its issues that are not of type error plus the number of tables
\* whose assessment raised; and the step of the loop over an empty table
\* leaves both counters, the scores and the issues as they were.
C28_ChecksCountIssuesAndFailedTables ==
  /\ [](ResultBuilt =>
          /\ quality_result.checks_passed + quality_result.checks_failed
               = Len(SelectSeq(quality_result.issues, LAMBDA issue : issue.type # "error"))
                   + Len(TableErrors(quality_result.issues))
          /\ quality_result.checks_failed >= Len(TableErrors(quality_result.issues)))
  /\ [][SkipEmptyTable =>
          /\ assess'.checks_passed = assess.checks_passed
          /\ assess'.checks_failed = assess.checks_failed
          /\ assess'.all_scores = assess.all_scores
          /\ assess'.all_issues = assess.all_issues
          /\ assess'.total_anomalies = assess.total_anomalies]_vars

\* a result of two tables: the assessment of one raised, and the other gave
\* an issue of an evaluator that raised next to issues that were counted
C28_Witness ==
  /\ ResultBuilt
  /\ Len(TableErrors(quality_result.issues)) = 1
  /\ \E i \in 1..Len(quality_result.issues) :
       quality_result.issues[i].type = "error" /\ quality_result.issues[i].table = 0
  /\ \E i \in 1..Len(quality_result.issues) : quality_result.issues[i].type # "error"
  /\ quality_result.checks_passed > 0
  /\ quality_result.checks_failed > 1

\* the six dimension scores of a result, in the order of table_scores
DimensionScores(result) ==
  << result.completeness_score, result.accuracy_score, result.consistency_score,
     result.timeliness_score, result.validity_score, result.uniqueness_score >>

\* C29: the step that builds the result gives it the mean of all the scores
\* collected as its overall score, and the scores of the last table that was
\* assessed without an exception as its six dimension scores; a step adds to
\* the scores collected only the six dimension scores of the sample it
\* assessed, and a step that assessed a new sample adds them.
C29_OverallOfAllDimensionsOfLast ==
  [][/\ (quality_result' # quality_result /\ assess.all_scores # <<>>) =>
          /\ quality_result'.overall_score = NpMean(assess.all_scores)
          /\ \A i \in 1..6 :
               DimensionScores(quality_result')[i]
                 = assess.all_scores[Len(assess.all_scores) - 6 + i]
     /\ assess'.all_scores # assess.all_scores =>
          assess'.all_scores
            = assess.all_scores
                \o << assess_data_completeness(df', config).score,
                      assess_data_accuracy(df', config).score,
                      assess_data_consistency(df', config).score,
                      assess_data_timeliness(df', config).score,
                      assess_data_validity(df', config).score,
                      assess_data_uniqueness(df', config).score >>
     /\ (df'.rows # <<>> /\ (df' # df \/ detection' # detection)) =>
          Len(assess'.all_scores) = Len(assess.all_scores) + 6]_vars

\* a result of two assessed tables whose overall score is not the mean of
\* its six dimension scores
C29_Witness ==
  /\ ResultBuilt
  /\ Len(assess.all_scores) = 12
  /\ quality_result.overall_score # NpMean(DimensionScores(quality_result))

====
